---- MODULE Spec2Model ----
(***************************************************************************)
(* Gaming-center control plane: UDP discovery listener (client), TCP      *)
(* connection registry and reader (server), and the session lifecycle     *)
(* between one terminal and the server.                                   *)
(*                                                                        *)
(* The subsystems share no state, so each has its own specification      *)
(* (SpecDisc, SpecProbe, SpecNet, SpecFrame, SpecTerm, SpecServer);       *)
(* a specification leaves the other subsystems' variables untouched.      *)
(***************************************************************************)
EXTENDS Integers, Sequences, FiniteSets, TLC

VARIABLES
    \* ---- DiscoveryClient (client/src/discovery_client.py)
    now,            \* wall clock, seconds
    servers,        \* self.servers: insertion-ordered dict, a sequence of ServerInfo
    listener,       \* position of the _discovery_loop thread
    sweep,          \* position of the _check_timeouts thread
    probe,          \* position of the _check_latency thread
    nAnn,           \* history, per id: announcements received since (and with) the
                    \* one that found the id unknown; 0 once a sweep removed the id
    nFound,         \* history, per id: on_server_found calls since that announcement
    nLost,          \* history, per id: on_server_lost calls since its last upsert
    lastNote,       \* history, per id: the last callback made for it
    \* ---- NetworkManager registry (server/src/network/network_manager.py)
    clients,        \* self.clients: address -> socket (NoSock when absent)
    client_status,  \* self.client_status: address -> "online"/"offline" ("unknown": no key)
    sock,           \* per socket: its peer address and whether the handle is open
    reader,         \* per socket: position of its _handle_client thread
    sender,         \* position of the thread calling send_message / close
    server_socket,  \* the listening socket: "listening" / "closed"
    closeCount,     \* history: close() calls per socket handle
    \* ---- one TCP stream and its reader (framing)
    wire,           \* bytes sent by the terminal and not yet received
    sentMsgs,       \* history: messages the terminal has sent, in order
    dispatched,     \* history: messages handed to _process_message, in order
    invoked,        \* history: handler calls: type, index of the message, raised or not
    poisoned,       \* history: well-formed messages sent before the peer's bad
                    \* data (NoneInt: the peer sent none)
    frameReader,    \* "reading" / "closed"
    \* ---- session lifecycle: terminal (client/src/main.py), then server
    \*      (server/src/main.py, database/db_manager.py)
    tclock,         \* terminal clock, hours
    current_session,\* GamingCenterClient.current_session
    session_manager,\* SessionManager fields
    lockdown,       \* system_locker monitoring / kiosk mode active
    term,           \* terminal UI thread: idle or inside the payment dialog
    nStarts,        \* start_session commands the terminal has received
    termSent,       \* every message the terminal has sent, in order
    srvSent,        \* every message the server has sent to the terminal, in order
    sessions,       \* sessions table: id -> row
    payments,       \* payments table: sequence of rows
    nextKey,        \* source of fresh key material
    ended,          \* history: the last end_session call that ran to its end
    nWarn,          \* history: inactivity warnings shown
    srv,            \* server UI thread: idle or inside end_session's sleep; last message box
    \* ---- wire codec: json.dumps(message) + '\n' and json.loads
    envelope,       \* the message handed to send_message (a dict)
    frame,          \* the characters written to the socket
    decoded,        \* what json.loads made of the frame
    codecPc,        \* "idle" / "chosen" / "encoded" / "decoded"
    \* ---- DiscoveryClient acceptance filter
    version_constraint, \* self.version_constraint: a version text, <<>> for None
    required_features,  \* self.required_features
    lastAnn,        \* history: the last datagram received and the filter's verdict
    nRecv,          \* history: datagrams received
    listenLog,      \* history: what became of each datagram, in order
    \* ---- a caller of DiscoveryClient.get_best_server
    best,           \* the ServerInfo the last call returned, NoServer for None
    \* ---- the loops of the services and their stopping
    bcast,          \* DiscoveryService: flag, interfaces, sockets, loop position
    dc,             \* DiscoveryClient: running flag and its three loops
    nm,             \* NetworkManager: server socket closed, accept loop
    \* ---- the terminal's connection to the server and its main window
    app             \* connected flag, pending reconnect timers, window closed

discVars  == <<now, servers, listener, sweep, probe, nAnn, nFound, nLost, lastNote>>
netVars   == <<clients, client_status, sock, reader, sender, server_socket, closeCount>>
frameVars == <<wire, sentMsgs, dispatched, invoked, poisoned, frameReader>>
termVars  == <<tclock, current_session, session_manager, lockdown, term,
               nStarts, termSent, nextKey, ended, nWarn>>
srvVars   == <<sessions, payments, srv, srvSent>>
codecVars == <<envelope, frame, decoded, codecPc>>
acceptVars == <<version_constraint, required_features, lastAnn, nRecv, listenLog>>
queryVars == <<best>>
loopVars  == <<bcast, dc, nm>>
appVars   == <<app>>
vars      == <<discVars, netVars, frameVars, termVars, srvVars, codecVars, acceptVars, queryVars,
               loopVars, appVars>>

\* a step of one subsystem leaves the others alone
DiscOnly  == UNCHANGED <<netVars, frameVars, termVars, srvVars, codecVars, acceptVars, queryVars, loopVars, appVars>>
NetOnly   == UNCHANGED <<discVars, frameVars, termVars, srvVars, codecVars, acceptVars, queryVars, loopVars, appVars>>
FrameOnly == UNCHANGED <<discVars, netVars, termVars, srvVars, codecVars, acceptVars, queryVars, loopVars, appVars>>
TermOnly  == UNCHANGED <<discVars, netVars, frameVars, srvVars, codecVars, acceptVars, queryVars, loopVars, appVars>>
SrvOnly   == UNCHANGED <<discVars, netVars, frameVars, termVars, codecVars, acceptVars, queryVars, loopVars, appVars>>
CodecOnly == UNCHANGED <<discVars, netVars, frameVars, termVars, srvVars, acceptVars, queryVars, loopVars, appVars>>
AcceptOnly == UNCHANGED <<netVars, frameVars, termVars, srvVars, codecVars, queryVars, loopVars, appVars>>
LoopOnly  == UNCHANGED <<discVars, netVars, frameVars, termVars, srvVars, codecVars,
                         acceptVars, queryVars, appVars>>
AppOnly   == UNCHANGED <<discVars, netVars, frameVars, srvVars, codecVars,
                         acceptVars, queryVars, loopVars>>
QueryOnly == UNCHANGED <<discVars, netVars, frameVars, termVars, srvVars, codecVars, acceptVars, loopVars, appVars>>

(***************************************************************************)
(* Bounds of the model                                                    *)
(***************************************************************************)
MaxTime   == 20     \* the discovery clock stops here
MaxNotify == 2      \* on_server_found / on_server_lost calls per id and episode
MaxAnn    == 2      \* announcements counted per id and episode

(***************************************************************************)
(* Python dict as an insertion-ordered sequence of entries with field id  *)
(***************************************************************************)
Ids(d) == {d[i].id : i \in 1..Len(d)}

IndexOf(d, id) == CHOOSE i \in 1..Len(d) : d[i].id = id

DictGet(d, id) == d[IndexOf(d, id)]

\* d[id] = v : an existing key keeps its position, a new key is appended
DictSet(d, id, v) ==
    IF id \in Ids(d) THEN [d EXCEPT ![IndexOf(d, id)] = v] ELSE Append(d, v)

\* del d[id]
DictDel(d, id) == SelectSeq(d, LAMBDA e : e.id # id)

(***************************************************************************)
(* DiscoveryClient                                                        *)
(***************************************************************************)
ServerIds == {"s1", "s2"}           \* "<sender address>:<announced port>"
Statuses  == {"running", "starting"}
None      == "None"                 \* Python None where a string is expected
NoneInt   == 0 - 1                  \* Python None where a number is expected
Latencies == {45, 120}              \* measured round trips, ms

server_timeout == 15
TickSeconds    == 5

ListenerIdle == [pc |-> "recv", id |-> None, status |-> None, now |-> 0, is_new |-> FALSE]
SweepIdle    == [pc |-> "idle", now |-> 0, i |-> 0, used |-> 0, timed_out |-> <<>>,
                 cur |-> None, due |-> {}]
ProbeIdle    == [pc |-> "idle", i |-> 0, used |-> 0, ref |-> None, stale |-> FALSE,
                 res |-> "none"]

InitDisc ==
    /\ now = 0
    /\ servers = <<>>
    /\ listener = ListenerIdle
    /\ sweep = SweepIdle
    /\ probe = ProbeIdle
    /\ nFound = [id \in ServerIds |-> 0]
    /\ nAnn = [id \in ServerIds |-> 0]
    /\ nLost = [id \in ServerIds |-> 0]
    /\ lastNote = [id \in ServerIds |-> "none"]

\* time passes
Tick ==
    /\ now + TickSeconds <= MaxTime
    /\ now' = now + TickSeconds
    /\ UNCHANGED <<servers, listener, sweep, probe, nFound, nAnn, nLost>>
    /\ UNCHANGED lastNote
    /\ DiscOnly

\* a silence longer than the timeout passes at once
TickTimeout ==
    /\ now + server_timeout + TickSeconds <= MaxTime
    /\ now' = now + server_timeout + TickSeconds
    /\ UNCHANGED <<servers, listener, sweep, probe, nFound, nAnn, nLost>>
    /\ UNCHANGED lastNote
    /\ DiscOnly

\* Variant of the membership test that treats every announcement as a first
\* sight (is_new always True), so a refresh notifies again.
UpdateCheckAlwaysNew(id, st) ==
    /\ listener.pc = "recv"
    /\ nAnn[id] < MaxAnn
    /\ listener' = [pc |-> "store", id |-> id, status |-> st, now |-> now,
                    is_new |-> TRUE]
    /\ nAnn' = [nAnn EXCEPT ![id] = IF id \notin Ids(servers) THEN 1
                                    ELSE IF @ >= 1 THEN @ + 1 ELSE 0]
    /\ nFound' = [nFound EXCEPT ![id] = IF id \notin Ids(servers) THEN 0 ELSE @]
    /\ UNCHANGED <<now, servers, sweep, probe, nLost>>
    /\ UNCHANGED lastNote
    /\ DiscOnly

\* _discovery_loop: recvfrom + json.loads + _meets_requirements accepted;
\* _update_server_info up to the membership test
UpdateCheck(id, st) ==
    /\ listener.pc = "recv"
    /\ nAnn[id] < MaxAnn
    /\ listener' = [pc |-> "store", id |-> id, status |-> st, now |-> now,
                    is_new |-> id \notin Ids(servers)]
    /\ nAnn' = [nAnn EXCEPT ![id] = IF id \notin Ids(servers) THEN 1
                                    ELSE IF @ >= 1 THEN @ + 1 ELSE 0]
    /\ nFound' = [nFound EXCEPT ![id] = IF id \notin Ids(servers) THEN 0 ELSE @]
    /\ UNCHANGED <<now, servers, sweep, probe, nLost>>
    /\ UNCHANGED lastNote
    /\ DiscOnly

\* self.servers[server_id] = ServerInfo(..., last_seen=now, latency=None)
UpdateStore ==
    /\ listener.pc = "store"
    /\ servers' = DictSet(servers, listener.id,
                          [id |-> listener.id, status |-> listener.status,
                           last_seen |-> listener.now, latency |-> NoneInt])
    /\ listener' = IF listener.is_new THEN [listener EXCEPT !.pc = "notify"]
                                       ELSE ListenerIdle
    /\ nLost' = [nLost EXCEPT ![listener.id] = 0]
    /\ sweep' = [sweep EXCEPT !.due = @ \ {listener.id}]
    /\ probe' = IF probe.ref = listener.id THEN [probe EXCEPT !.stale = TRUE] ELSE probe
    /\ UNCHANGED <<now, nFound, nAnn>>
    /\ UNCHANGED lastNote
    /\ DiscOnly

\* if is_new and self.on_server_found: self.on_server_found(...)
\* the callback returns or raises; a raise is caught by the loop (sleep, continue)
UpdateNotify ==
    /\ listener.pc = "notify"
    /\ nFound' = [nFound EXCEPT ![listener.id] = @ + 1]
    /\ listener' = ListenerIdle
    /\ UNCHANGED <<now, servers, sweep, probe, nAnn, nLost>>
    /\ lastNote' = [lastNote EXCEPT ![listener.id] = "found"]
    /\ DiscOnly

\* _check_timeouts: now = datetime.now(); timed_out = []; iter(self.servers.items())
SweepBegin ==
    /\ sweep.pc = "idle"
    /\ \A id \in ServerIds : nLost[id] < MaxNotify
    /\ sweep' = [pc |-> "iter", now |-> now, i |-> 1, used |-> Len(servers),
                 timed_out |-> <<>>, cur |-> None,
                 due |-> {servers[k].id : k \in
                            {j \in 1..Len(servers) :
                                now - servers[j].last_seen > server_timeout}}]
    /\ UNCHANGED <<now, servers, listener, probe, nFound, nAnn, nLost>>
    /\ UNCHANGED lastNote
    /\ DiscOnly

\* one step of "for server_id, server in self.servers.items()":
\* a dict whose size changed since the iterator was made raises RuntimeError,
\* which the loop's except clause logs (sleep, next tick)
SweepNext ==
    /\ sweep.pc = "iter"
    /\ IF Len(servers) # sweep.used
         THEN sweep' = SweepIdle
         ELSE IF sweep.i > Len(servers)
           THEN sweep' = [sweep EXCEPT !.pc = "remove"]
           ELSE IF sweep.now - servers[sweep.i].last_seen > server_timeout
             THEN sweep' = [sweep EXCEPT !.pc = "notify",
                                         !.cur = servers[sweep.i].id,
                                         !.timed_out = Append(@, servers[sweep.i].id),
                                         !.i = @ + 1]
             ELSE sweep' = [sweep EXCEPT !.i = @ + 1]
    /\ UNCHANGED <<now, servers, listener, probe, nFound, nAnn, nLost>>
    /\ UNCHANGED lastNote
    /\ DiscOnly

\* if self.on_server_lost: self.on_server_lost(server)
\* raised = TRUE: the callback raises, the except clause ends this tick
SweepNotify(raised) ==
    /\ sweep.pc = "notify"
    /\ nLost' = [nLost EXCEPT ![sweep.cur] = @ + 1]
    /\ sweep' = IF raised THEN SweepIdle
                          ELSE [sweep EXCEPT !.pc = "iter", !.cur = None]
    /\ UNCHANGED <<now, servers, listener, probe, nFound, nAnn>>
    /\ lastNote' = [lastNote EXCEPT ![sweep.cur] = "lost"]
    /\ DiscOnly

\* for server_id in timed_out: del self.servers[server_id]
SweepRemove ==
    /\ sweep.pc = "remove"
    /\ IF sweep.timed_out = <<>>
         THEN /\ sweep' = SweepIdle
              /\ UNCHANGED <<servers, nFound, nAnn, probe>>
         ELSE LET id == Head(sweep.timed_out) IN
              /\ servers' = DictDel(servers, id)
              /\ sweep' = [sweep EXCEPT !.timed_out = Tail(@)]
              /\ nAnn' = [nAnn EXCEPT ![id] = 0]
              /\ UNCHANGED nFound
              /\ probe' = IF probe.ref = id THEN [probe EXCEPT !.stale = TRUE] ELSE probe
    /\ UNCHANGED <<now, listener, nLost>>
    /\ UNCHANGED lastNote
    /\ DiscOnly

\* _check_latency: iter(self.servers.items())
ProbeBegin ==
    /\ probe.pc = "idle"
    /\ servers # <<>>
    /\ probe' = [pc |-> "iter", i |-> 1, used |-> Len(servers), ref |-> None,
                 stale |-> FALSE, res |-> "none"]
    /\ UNCHANGED <<now, servers, listener, sweep, nFound, nAnn, nLost>>
    /\ UNCHANGED lastNote
    /\ DiscOnly

\* one step of the probe's dict iteration; RuntimeError ends the pass
ProbeNext ==
    /\ probe.pc = "iter"
    /\ IF Len(servers) # probe.used \/ probe.i > Len(servers)
         THEN probe' = ProbeIdle
         ELSE probe' = [probe EXCEPT !.pc = "connect", !.ref = servers[probe.i].id,
                                     !.stale = FALSE, !.i = @ + 1]
    /\ UNCHANGED <<now, servers, listener, sweep, nFound, nAnn, nLost>>
    /\ UNCHANGED lastNote
    /\ DiscOnly

\* Variant of the probe that drops the entry of a server it cannot reach.
ProbeResultDrop(lat) ==
    /\ probe.pc = "connect"
    /\ servers' = IF probe.stale THEN servers
                  ELSE IF lat = NoneInt THEN DictDel(servers, probe.ref)
                  ELSE DictSet(servers, probe.ref,
                               [DictGet(servers, probe.ref) EXCEPT !.latency = lat])
    /\ probe' = [probe EXCEPT !.pc = "iter", !.ref = None, !.stale = FALSE,
                              !.res = IF lat = NoneInt THEN "failed" ELSE "ok"]
    /\ UNCHANGED <<now, listener, sweep, nFound, nAnn, nLost>>
    /\ UNCHANGED lastNote
    /\ DiscOnly

\* connect with 1s timeout, then server.latency = latency, or None on failure;
\* the write goes to the ServerInfo object the iterator yielded, which is no
\* longer the dict's entry once the listener replaced it or the sweep deleted it;
\* res keeps what the debug log line says
ProbeResult(lat) ==
    /\ probe.pc = "connect"
    /\ servers' = IF probe.stale THEN servers
                  ELSE DictSet(servers, probe.ref,
                               [DictGet(servers, probe.ref) EXCEPT !.latency = lat])
    /\ probe' = [probe EXCEPT !.pc = "iter", !.ref = None, !.stale = FALSE,
                              !.res = IF lat = NoneInt THEN "failed" ELSE "ok"]
    /\ UNCHANGED <<now, listener, sweep, nFound, nAnn, nLost>>
    /\ UNCHANGED lastNote
    /\ DiscOnly

\* get_available_servers(): list(self.servers.values()), as the ids returned
get_available_servers == Ids(servers)

Eligible(d) == {i \in 1..Len(d) : d[i].status = "running" /\ d[i].latency # NoneInt}

\* Variant of the selection that takes the first eligible entry.
BestIndexFirst(d) == CHOOSE i \in Eligible(d) : \A j \in Eligible(d) : i <= j

\* min(available_servers, key=lambda s: s.latency): the first minimal entry
BestIndex(d) ==
    CHOOSE i \in Eligible(d) :
        \A j \in Eligible(d) : d[i].latency < d[j].latency
                               \/ (d[i].latency = d[j].latency /\ i <= j)

\* the return value None of get_best_server
NoServer == [id |-> None, status |-> None, last_seen |-> NoneInt, latency |-> NoneInt]

\* get_best_server(): the entry returned
get_best_server ==
    IF Eligible(servers) = {} THEN NoServer ELSE servers[BestIndex(servers)]

InitQuery == best = NoServer

\* a call of get_best_server() from the user interface thread
GetBestServer ==
    /\ best' = get_best_server
    /\ QueryOnly

NextDisc ==
    \/ Tick
    \/ \E id \in ServerIds, st \in Statuses : UpdateCheck(id, st)
    \/ UpdateStore
    \/ UpdateNotify
    \/ SweepBegin
    \/ SweepNext
    \/ \E raised \in BOOLEAN : SweepNotify(raised)
    \/ SweepRemove

\* the listener, the sweep and the latency prober together
NextRegistry ==
    \/ Tick
    \/ \E id \in ServerIds : UpdateCheck(id, "running")
    \/ UpdateStore
    \/ UpdateNotify
    \/ SweepBegin
    \/ SweepNext
    \/ SweepNotify(FALSE)
    \/ SweepRemove
    \/ ProbeBegin
    \/ ProbeNext
    \/ \E lat \in {45, NoneInt} : ProbeResult(lat)

\* the same three threads, with the clock moving only past the timeout
NextMembership ==
    \/ TickTimeout
    \/ \E id \in ServerIds : UpdateCheck(id, "running")
    \/ UpdateStore
    \/ UpdateNotify
    \/ SweepBegin
    \/ SweepNext
    \/ SweepNotify(FALSE)
    \/ SweepRemove
    \/ ProbeBegin
    \/ ProbeNext
    \/ \E lat \in {45, NoneInt} : ProbeResult(lat)

\* the latency prober beside the listener
NextProbe ==
    \/ \E id \in ServerIds, st \in Statuses : UpdateCheck(id, st)
    \/ UpdateStore
    \/ UpdateNotify
    \/ ProbeBegin
    \/ ProbeNext
    \/ \E lat \in Latencies \cup {NoneInt} : ProbeResult(lat)
    \/ GetBestServer

(***************************************************************************)
(* The acceptance filter of the discovery listener: _meets_requirements   *)
(* with packaging.version, and the loop's branch on its result.           *)
(* A version text is a sequence of characters; <<>> stands for a missing  *)
(* 'version' key.                                                         *)
(***************************************************************************)
MaxRecv == 2                        \* datagrams received in one run

VersionDigits == {"0", "1", "9"}

\* 0.9.0, 1.0.0, 1.9.0, 1.10.0, no version, not a version
VersionTexts ==
    {<<"0", ".", "9", ".", "0">>, <<"1", ".", "0", ".", "0">>,
     <<"1", ".", "9", ".", "0">>, <<"1", ".", "1", "0", ".", "0">>,
     <<>>, <<"x">>}

Features == {"f", "g"}

\* the datagrams of one server: json.loads(data.decode())
Announcements ==
    [id : ServerIds, status : {"running"}, version : VersionTexts,
     features : SUBSET Features]

DigitVal(c) == CASE c = "0" -> 0 [] c = "1" -> 1 [] OTHER -> 9

\* packaging.version.parse: the release segment, dot-separated integers;
\* ok is FALSE where parse raises InvalidVersion (or info['version'] KeyError)
RECURSIVE ParseRelease(_, _, _)
ParseRelease(txt, cur, acc) ==
    IF txt = <<>>
      THEN IF cur = NoneInt THEN [ok |-> FALSE, release |-> <<>>]
                            ELSE [ok |-> TRUE, release |-> Append(acc, cur)]
    ELSE IF Head(txt) \in VersionDigits
      THEN ParseRelease(Tail(txt),
                        (IF cur = NoneInt THEN 0 ELSE cur * 10) + DigitVal(Head(txt)), acc)
    ELSE IF Head(txt) = "." /\ cur # NoneInt
      THEN ParseRelease(Tail(txt), NoneInt, Append(acc, cur))
    ELSE [ok |-> FALSE, release |-> <<>>]

version_parse(txt) == ParseRelease(txt, NoneInt, <<>>)

\* Version.__ge__: compare the release tuples left to right, the shorter one
\* padded with zeros
RECURSIVE ReleaseGE(_, _)
ReleaseGE(a, b) ==
    IF a = <<>> /\ b = <<>> THEN TRUE
    ELSE LET x == IF a = <<>> THEN 0 ELSE Head(a)
             y == IF b = <<>> THEN 0 ELSE Head(b)
         IN  IF x # y THEN x > y
             ELSE ReleaseGE(IF a = <<>> THEN a ELSE Tail(a),
                            IF b = <<>> THEN b ELSE Tail(b))

\* Variant of the filter that is content with any one required feature.
meets_requirements_any(info) ==
    /\ version_constraint # <<>>
          => /\ version_parse(info.version).ok
             /\ version_parse(version_constraint).ok
             /\ ReleaseGE(version_parse(info.version).release,
                          version_parse(version_constraint).release)
    /\ required_features # {}
          => required_features \cap info.features # {}

\* _meets_requirements(info)
meets_requirements(info) ==
    /\ version_constraint # <<>>
          => /\ version_parse(info.version).ok
             /\ version_parse(version_constraint).ok
             /\ ReleaseGE(version_parse(info.version).release,
                          version_parse(version_constraint).release)
    /\ required_features # {}
          => required_features \subseteq info.features

NoAnn == [n |-> 0, accepted |-> FALSE,
          info |-> [id |-> None, status |-> None, version |-> <<>>, features |-> {}]]

InitAccept ==
    /\ version_constraint = <<>>
    /\ required_features = {}
    /\ lastAnn = NoAnn
    /\ nRecv = 0
    /\ listenLog = <<>>

\* set_version_constraint(version), before the client is started
set_version_constraint(version) ==
    /\ nRecv = 0
    /\ version_constraint' = version
    /\ UNCHANGED <<required_features, lastAnn, nRecv, listenLog>>
    /\ UNCHANGED discVars
    /\ AcceptOnly

\* set_required_features(features), before the client is started
set_required_features(features) ==
    /\ nRecv = 0
    /\ required_features' = features
    /\ UNCHANGED <<version_constraint, lastAnn, nRecv, listenLog>>
    /\ UNCHANGED discVars
    /\ AcceptOnly

\* _discovery_loop: recvfrom, json.loads, if self._meets_requirements(info):
\* _update_server_info up to the membership test; otherwise back to recvfrom
RecvAnnouncement(info) ==
    /\ listener.pc = "recv"
    /\ nRecv < MaxRecv
    /\ nRecv' = nRecv + 1
    /\ lastAnn' = [n |-> nRecv + 1, accepted |-> meets_requirements(info), info |-> info]
    /\ IF meets_requirements(info)
         THEN /\ listener' = [pc |-> "store", id |-> info.id, status |-> info.status,
                              now |-> now, is_new |-> info.id \notin Ids(servers)]
              /\ nAnn' = [nAnn EXCEPT ![info.id] = IF info.id \notin Ids(servers) THEN 1
                                                   ELSE IF @ >= 1 THEN @ + 1 ELSE 0]
              /\ nFound' = [nFound EXCEPT ![info.id] =
                                IF info.id \notin Ids(servers) THEN 0 ELSE @]
         ELSE UNCHANGED <<listener, nAnn, nFound>>
    /\ UNCHANGED <<now, servers, sweep, probe, nLost>>
    /\ UNCHANGED <<version_constraint, required_features, listenLog>>
    /\ UNCHANGED lastNote
    /\ AcceptOnly

\* the listener with its filter
NextAccept ==
    \/ \E v \in {<<"1", ".", "0", ".", "0">>, <<"1", ".", "9", ".", "0">>} :
           set_version_constraint(v)
    \/ \E f \in SUBSET Features : set_required_features(f)
    \/ \E info \in Announcements : RecvAnnouncement(info)
    \/ UpdateStore
    \/ UpdateNotify
    \/ Tick

(***************************************************************************)
(* NetworkManager: connection registry, one reader thread per accepted    *)
(* socket, and the caller of send_message / close (the UI thread).        *)
(* Every statement that touches self.clients or self.client_status is one *)
(* step: the code takes no lock.                                          *)
(***************************************************************************)
MaxSock == 2                        \* connections accepted in one run

Addrs  == {"a1", "a2"}              \* client_ip
Socks  == 1..MaxSock
NoSock == 0

SenderIdle == [pc |-> "idle", op |-> "none", ip |-> None, s |-> NoSock,
               todo |-> {}, result |-> "none", handed |-> FALSE]

InitNet ==
    /\ clients = [a \in Addrs |-> NoSock]
    /\ client_status = [a \in Addrs |-> "unknown"]
    /\ sock = [s \in Socks |-> [addr |-> None, state |-> "unused"]]
    /\ reader = [s \in Socks |-> "none"]
    /\ sender = SenderIdle
    /\ server_socket = "listening"
    /\ closeCount = [s \in Socks |-> 0]

\* return list(self.clients.keys())
get_connected_clients == {a \in Addrs : clients[a] # NoSock}

\* return self.client_status.get(client_ip, "offline")
get_client_status(ip) ==
    IF client_status[ip] = "unknown" THEN "offline" ELSE client_status[ip]

\* Variant of _remove_client whose eviction empties the whole table
\* (self.clients.clear()) instead of deleting the one address.
RemoveClientStepClearAll(pc, ip, out) ==
    \/ /\ pc = "rm_check"
       /\ out = IF clients[ip] # NoSock THEN "rm_close" ELSE "rm_done"
       /\ UNCHANGED <<clients, client_status, sock, closeCount>>
    \/ /\ pc = "rm_close"
       /\ out = "rm_del"
       /\ IF clients[ip] # NoSock
            THEN /\ sock' = [sock EXCEPT ![clients[ip]].state = "closed"]
                 /\ closeCount' = [closeCount EXCEPT ![clients[ip]] = @ + 1]
            ELSE UNCHANGED <<sock, closeCount>>
       /\ UNCHANGED <<clients, client_status>>
    \/ /\ pc = "rm_del"
       /\ IF clients[ip] # NoSock
            THEN /\ clients' = [a \in Addrs |-> NoSock]
                 /\ out = "rm_status"
            ELSE /\ out = "rm_raise"
                 /\ UNCHANGED clients
       /\ UNCHANGED <<client_status, sock, closeCount>>
    \/ /\ pc = "rm_status"
       /\ out = "rm_done"
       /\ client_status' = [client_status EXCEPT ![ip] = "offline"]
       /\ UNCHANGED <<clients, sock, closeCount>>

\* _remove_client(ip), statement by statement; out is the caller's next position
RemoveClientStep(pc, ip, out) ==
    \/ /\ pc = "rm_check"                       \* if client_ip in self.clients:
       /\ out = IF clients[ip] # NoSock THEN "rm_close" ELSE "rm_done"
       /\ UNCHANGED <<clients, client_status, sock, closeCount>>
    \/ /\ pc = "rm_close"                       \* try: self.clients[ip].close() except: pass
       /\ out = "rm_del"
       /\ IF clients[ip] # NoSock
            THEN /\ sock' = [sock EXCEPT ![clients[ip]].state = "closed"]
                 /\ closeCount' = [closeCount EXCEPT ![clients[ip]] = @ + 1]
            ELSE UNCHANGED <<sock, closeCount>>
       /\ UNCHANGED <<clients, client_status>>
    \/ /\ pc = "rm_del"                         \* del self.clients[ip]  (KeyError if absent)
       /\ IF clients[ip] # NoSock
            THEN /\ clients' = [clients EXCEPT ![ip] = NoSock]
                 /\ out = "rm_status"
            ELSE /\ out = "rm_raise"
                 /\ UNCHANGED clients
       /\ UNCHANGED <<client_status, sock, closeCount>>
    \/ /\ pc = "rm_status"                      \* self.client_status[ip] = "offline"
       /\ out = "rm_done"
       /\ client_status' = [client_status EXCEPT ![ip] = "offline"]
       /\ UNCHANGED <<clients, sock, closeCount>>

RmOut == {"rm_close", "rm_del", "rm_status", "rm_done", "rm_raise"}
RmPcs == {"rm_check", "rm_close", "rm_del", "rm_status"}

\* _accept_connections: accept() and start the _handle_client thread
Accept(a) ==
    /\ server_socket = "listening"
    /\ \E s \in Socks :
         /\ sock[s].state = "unused"
         /\ \A r \in Socks : r < s => sock[r].state # "unused"
         /\ sock' = [sock EXCEPT ![s] = [addr |-> a, state |-> "open"]]
         /\ reader' = [reader EXCEPT ![s] = "reg_clients"]
    /\ UNCHANGED <<clients, client_status, sender, server_socket, closeCount>>
    /\ NetOnly

\* _handle_client: self.clients[client_ip] = client_socket
ReaderRegClients(s) ==
    /\ reader[s] = "reg_clients"
    /\ clients' = [clients EXCEPT ![sock[s].addr] = s]
    /\ reader' = [reader EXCEPT ![s] = "reg_status"]
    /\ UNCHANGED <<client_status, sock, sender, server_socket, closeCount>>
    /\ NetOnly

\* _handle_client: self.client_status[client_ip] = "online"
ReaderRegStatus(s) ==
    /\ reader[s] = "reg_status"
    /\ client_status' = [client_status EXCEPT ![sock[s].addr] = "online"]
    /\ reader' = [reader EXCEPT ![s] = "recv"]
    /\ UNCHANGED <<clients, sock, sender, server_socket, closeCount>>
    /\ NetOnly

\* the while loop breaks: recv returned b'' (peer close), json.loads failed,
\* or recv raised (reset, or the handle was closed by another thread)
ReaderExit(s) ==
    /\ reader[s] = "recv"
    /\ reader' = [reader EXCEPT ![s] = "rm_check"]
    /\ UNCHANGED <<clients, client_status, sock, sender, server_socket, closeCount>>
    /\ NetOnly

\* finally: self._remove_client(client_ip); a KeyError kills the thread
ReaderRemove(s) ==
    /\ reader[s] \in RmPcs
    /\ \E out \in RmOut :
         /\ RemoveClientStep(reader[s], sock[s].addr, out)
         /\ reader' = [reader EXCEPT ![s] =
                          CASE out = "rm_done"  -> "done"
                            [] out = "rm_raise" -> "crashed"
                            [] OTHER            -> out]
    /\ UNCHANGED <<sender, server_socket>>
    /\ NetOnly

\* send_message: if client_ip not in self.clients: return False
SendCheck(ip) ==
    /\ sender.pc = "idle"
    /\ sender' = IF clients[ip] = NoSock
                   THEN [SenderIdle EXCEPT !.pc = "ret", !.op = "send", !.ip = ip,
                                           !.result = "false"]
                   ELSE [SenderIdle EXCEPT !.pc = "send_lookup", !.op = "send", !.ip = ip]
    /\ UNCHANGED <<clients, client_status, sock, reader, server_socket, closeCount>>
    /\ NetOnly

\* try: self.clients[client_ip]   (KeyError is caught by except Exception)
SendLookup ==
    /\ sender.pc = "send_lookup"
    /\ sender' = IF clients[sender.ip] = NoSock
                   THEN [sender EXCEPT !.pc = "rm_check"]
                   ELSE [sender EXCEPT !.pc = "send_all", !.s = clients[sender.ip]]
    /\ UNCHANGED <<clients, client_status, sock, reader, server_socket, closeCount>>
    /\ NetOnly

\* .sendall(frame): succeeds only on an open handle; return True,
\* or except Exception: self._remove_client(client_ip)
SendAll(ok) ==
    /\ sender.pc = "send_all"
    /\ ok => sock[sender.s].state = "open"
    /\ sender' = IF ok THEN [sender EXCEPT !.pc = "ret", !.result = "true",
                                           !.handed = (clients[sender.ip] = sender.s)]
                       ELSE [sender EXCEPT !.pc = "rm_check"]
    /\ UNCHANGED <<clients, client_status, sock, reader, server_socket, closeCount>>
    /\ NetOnly

\* close(): for client_ip in list(self.clients.keys())
CloseBegin ==
    /\ sender.pc = "idle"
    /\ server_socket = "listening"
    /\ sender' = [SenderIdle EXCEPT !.pc = "close_iter", !.op = "close",
                                    !.todo = get_connected_clients]
    /\ UNCHANGED <<clients, client_status, sock, reader, server_socket, closeCount>>
    /\ NetOnly

\* next address of close()'s loop, then self.server_socket.close()
CloseStep ==
    /\ sender.pc = "close_iter"
    /\ IF sender.todo = {}
         THEN /\ server_socket' = "closed"
              /\ sender' = SenderIdle
         ELSE /\ \E ip \in sender.todo :
                   sender' = [sender EXCEPT !.pc = "rm_check", !.ip = ip,
                                            !.todo = @ \ {ip}]
              /\ UNCHANGED server_socket
    /\ UNCHANGED <<clients, client_status, sock, reader, closeCount>>
    /\ NetOnly

\* _remove_client run by the caller of send_message or close.
\* send_message: after it, return False; its KeyError leaves send_message.
\* close: its KeyError is caught by close's except clause, which ends close().
SenderRemove ==
    /\ sender.pc \in RmPcs
    /\ \E out \in RmOut :
         /\ RemoveClientStep(sender.pc, sender.ip, out)
         /\ sender' =
              CASE out = "rm_done" /\ sender.op = "send" ->
                      [sender EXCEPT !.pc = "ret", !.result = "false"]
                [] out = "rm_raise" /\ sender.op = "send" ->
                      [sender EXCEPT !.pc = "ret", !.result = "raised"]
                [] out = "rm_done" /\ sender.op = "close" ->
                      [sender EXCEPT !.pc = "close_iter"]
                [] out = "rm_raise" /\ sender.op = "close" -> SenderIdle
                [] OTHER -> [sender EXCEPT !.pc = out]
    /\ UNCHANGED <<reader, server_socket>>
    /\ NetOnly

\* send_message has returned (or raised) to its caller
SendReturn ==
    /\ sender.pc = "ret"
    /\ sender' = SenderIdle
    /\ UNCHANGED <<clients, client_status, sock, reader, server_socket, closeCount>>
    /\ NetOnly

\* the server while it runs: accepting, reading and sending, no close()
NextSend ==
    \/ \E a \in Addrs : Accept(a)
    \/ \E s \in Socks : ReaderRegClients(s)
    \/ \E s \in Socks : ReaderRegStatus(s)
    \/ \E s \in Socks : ReaderExit(s)
    \/ \E s \in Socks : ReaderRemove(s)
    \/ \E ip \in Addrs : SendCheck(ip)
    \/ SendLookup
    \/ \E ok \in BOOLEAN : SendAll(ok)
    \/ SenderRemove
    \/ SendReturn

NextNet ==
    \/ \E a \in Addrs : Accept(a)
    \/ \E s \in Socks : ReaderRegClients(s)
    \/ \E s \in Socks : ReaderRegStatus(s)
    \/ \E s \in Socks : ReaderExit(s)
    \/ \E s \in Socks : ReaderRemove(s)
    \/ \E ip \in Addrs : SendCheck(ip)
    \/ SendLookup
    \/ \E ok \in BOOLEAN : SendAll(ok)
    \/ CloseBegin
    \/ CloseStep
    \/ SenderRemove
    \/ SendReturn

(***************************************************************************)
(* One TCP stream into _handle_client: the terminal writes frames          *)
(* json.dumps(message) + '\n'; the reader takes whatever recv(4096)        *)
(* returns and hands it to json.loads.                                    *)
(***************************************************************************)
MaxMsgs  == 3                       \* well-formed messages the terminal sends in one run

\* message contents: "p" has type session_end, "q" has type hello,
\* "n" has no type field
Payloads == {"p", "q", "n"}

RecvSize == 4096
NL       == "\n"

\* message.get('type')
MsgType(m) == CASE m = "p" -> "session_end"
                [] m = "q" -> "hello"
                [] OTHER   -> None

\* self.message_handlers after GamingCenterServer.setup_network_handlers
message_handlers == {"status_update", "session_end"}

\* json.dumps(message) + '\n' as a byte sequence
Frame(m) == <<"{", m, "}", NL>>

\* a well-formed frame longer than one recv can return: its body is two
\* pieces that never fit into one chunk together
BigFrame == <<"{", "big1", "big2", "}", NL>>

\* data that is no frame: junk bytes, an empty line, two objects on one line
Malformed == {<<"x", NL>>, <<NL>>, <<"{", "p", "}", "{", "q", "}", NL>>}

\* bytes a piece of the stream occupies
TokSize(tok) == IF tok \in {"big1", "big2"} THEN RecvSize - 96 ELSE 1

RECURSIVE ChunkSize(_)
ChunkSize(b) == IF b = <<>> THEN 0 ELSE TokSize(Head(b)) + ChunkSize(Tail(b))

\* the longest stream of one run
MaxWire == 4 * MaxMsgs + 7

RECURSIVE StripLeft(_)
StripLeft(b) == IF b # <<>> /\ Head(b) = NL THEN StripLeft(Tail(b)) ELSE b

RECURSIVE StripRight(_)
StripRight(b) ==
    IF b # <<>> /\ b[Len(b)] = NL THEN StripRight(SubSeq(b, 1, Len(b) - 1)) ELSE b

\* json.loads: one JSON object, surrounding whitespace allowed, nothing else
JsonOk(b) ==
    LET t == StripRight(StripLeft(b)) IN
    \/ /\ Len(t) = 3
       /\ t[1] = "{"
       /\ t[2] \in Payloads
       /\ t[3] = "}"
    \/ t = <<"{", "big1", "big2", "}">>

JsonLoads(b) ==
    LET t == StripRight(StripLeft(b)) IN IF Len(t) = 3 THEN t[2] ELSE "big"

InitFrame ==
    /\ wire = <<>>
    /\ sentMsgs = <<>>
    /\ dispatched = <<>>
    /\ invoked = <<>>
    /\ poisoned = NoneInt
    /\ frameReader = "reading"

\* the terminal's sendall of one frame
TermSendFrame(m) ==
    /\ frameReader = "reading"
    /\ Len(sentMsgs) < MaxMsgs
    /\ wire' = wire \o Frame(m)
    /\ sentMsgs' = Append(sentMsgs, m)
    /\ UNCHANGED <<dispatched, invoked, poisoned, frameReader>>
    /\ FrameOnly

\* the peer writes data that is not a frame of the protocol (once per run)
PeerSendBad(b) ==
    /\ frameReader = "reading"
    /\ poisoned = NoneInt
    /\ wire' = wire \o b
    /\ poisoned' = Len(sentMsgs)
    /\ UNCHANGED <<sentMsgs, dispatched, invoked, frameReader>>
    /\ FrameOnly

\* Variant of _process_message that calls self.message_handlers[message_type]
\* without the membership test: an unknown type is a KeyError raised to the
\* reader loop.
ProcessMessageNoLookup(message, raises) ==
    IF MsgType(message) \in message_handlers
      THEN /\ invoked' = Append(invoked, [type |-> MsgType(message),
                                          at |-> Len(dispatched) + 1,
                                          raised |-> raises])
           /\ UNCHANGED frameReader
      ELSE /\ raises = FALSE
           /\ frameReader' = "closed"
           /\ UNCHANGED invoked

\* Variant of _process_message without the try/except around the handler
\* call: the handler's exception reaches the reader loop, which breaks.
ProcessMessageNoCatch(message, raises) ==
    IF MsgType(message) \in message_handlers
      THEN /\ invoked' = Append(invoked, [type |-> MsgType(message),
                                          at |-> Len(dispatched) + 1,
                                          raised |-> raises])
           /\ frameReader' = IF raises THEN "closed" ELSE frameReader
      ELSE /\ raises = FALSE
           /\ UNCHANGED <<invoked, frameReader>>

\* _process_message(message, client_ip): look the type up; call the handler
\* inside try/except Exception (raises = the handler raised); unknown type:
\* nothing.  Returns normally in every case.
ProcessMessage(message, raises) ==
    IF MsgType(message) \in message_handlers
      THEN /\ invoked' = Append(invoked, [type |-> MsgType(message),
                                          at |-> Len(dispatched) + 1,
                                          raised |-> raises])
           /\ UNCHANGED frameReader
      ELSE /\ raises = FALSE
           /\ UNCHANGED <<invoked, frameReader>>

\* data = client_socket.recv(4096); message = json.loads(data.decode('utf-8'));
\* self._process_message(message, client_ip)   -- or JSONDecodeError: break,
\* after which _remove_client closes the socket and the unread bytes are lost
ReaderRecv(n, raises) ==
    /\ frameReader = "reading"
    /\ n \in 1..Len(wire)
    /\ ChunkSize(SubSeq(wire, 1, n)) <= RecvSize
    /\ LET data == SubSeq(wire, 1, n) IN
       IF JsonOk(data)
         THEN /\ dispatched' = Append(dispatched, JsonLoads(data))
              /\ ProcessMessage(JsonLoads(data), raises)
              /\ wire' = IF frameReader' = "closed" THEN <<>>
                                                    ELSE SubSeq(wire, n + 1, Len(wire))
         ELSE /\ raises = FALSE
              /\ frameReader' = "closed"
              /\ wire' = <<>>
              /\ UNCHANGED <<dispatched, invoked>>
    /\ UNCHANGED <<sentMsgs, poisoned>>
    /\ FrameOnly

NextFrame ==
    \/ \E m \in Payloads : TermSendFrame(m)
    \/ \E b \in Malformed \cup {BigFrame} : PeerSendBad(b)
    \/ \E n \in 1..MaxWire, raises \in BOOLEAN : ReaderRecv(n, raises)

(***************************************************************************)
(* Session lifecycle, terminal side: GamingCenterClient + SessionManager. *)
(* The commands it receives are the ones the server sends: start_session  *)
(* once per session id, ids ascending, and end_session{force_end: True}.  *)
(***************************************************************************)
MaxSessions == 2                    \* sessions the operator starts in one run
MaxClock    == 2                    \* the terminal clock stops here (hours)
MaxDialogs  == 2                    \* payment dialogs open at once (nested exec())
MaxWarn     == 2                    \* inactivity warnings in one run

inactivity_timeout == 300           \* SessionManager.inactivity_timeout, seconds
SecondsPerHour     == 3600          \* the terminal clock counts hours

SessionIds == 1..MaxSessions
Durations  == {1, 2}                \* session_duration_spin, hours
NoSession  == [id |-> 0, start_time |-> 0, end_time |-> 0]
NoManager  == [session_key |-> NoneInt, session_id |-> NoneInt,
               session_start |-> NoneInt, session_duration |-> NoneInt,
               last_activity |-> NoneInt, inactivity_timer |-> FALSE]
NoEnd      == [force_end |-> FALSE, accepted |-> FALSE]

\* what the user leaves in the payment dialog: the prefilled amount (NoneInt)
\* or a typed one, in cents, and the method
DialogInputs == {[amount |-> NoneInt, method |-> "Cash"],
                 [amount |-> 500, method |-> "Card"]}

\* calculate_default_amount: round(duration_minutes * (2.00 / 60), 2), in cents
calculate_default_amount(duration_minutes) == (duration_minutes * 200 + 30) \div 60

InitTerm ==
    /\ tclock = 0
    /\ current_session = NoSession
    /\ session_manager = NoManager
    /\ lockdown = FALSE
    /\ term = <<>>
    /\ nStarts = 0
    /\ termSent = <<>>
    /\ nextKey = 1
    /\ ended = NoEnd
    /\ nWarn = 0

\* the terminal's NetworkManager.send_message(message)
ClientSend(msg) == termSent' = Append(termSent, msg)

\* time passes on the terminal
TermTick ==
    /\ tclock < MaxClock
    /\ tclock' = tclock + 1
    /\ UNCHANGED <<current_session, session_manager, lockdown, term, nStarts,
                   termSent, nextKey, ended, nWarn>>
    /\ TermOnly

\* SessionManager.encrypt_message(message): a Fernet token under the session
\* key; only the holder of that key reads plain
encrypt_message(key, message) == [token |-> key, plain |-> message]

\* SessionManager.get_session_info() returns a dict (not None)
get_session_info == session_manager.session_start # NoneInt

\* Variant of the handler that builds the acknowledgment before the key is
\* derived, so that it carries the key held before.
handle_start_session_old_key(duration, fail) ==
    /\ nStarts < MaxSessions
    /\ nStarts' = nStarts + 1
    /\ LET session_id == nStarts + 1 IN
       /\ session_manager' =
            [session_key      |-> IF fail = "keygen" THEN session_manager.session_key
                                                     ELSE nextKey,
             session_id       |-> session_id,
             session_start    |-> tclock,
             session_duration |-> duration,
             last_activity    |-> tclock,
             inactivity_timer |-> IF fail = "keygen"
                                    THEN session_manager.inactivity_timer ELSE TRUE]
       /\ nextKey' = IF fail = "keygen" THEN nextKey ELSE nextKey + 1
       /\ IF fail = "none"
            THEN /\ ClientSend(encrypt_message(nextKey,
                                   [type |-> "session_started",
                                    session_id |-> session_id,
                                    session_key |-> session_manager.session_key]))
                 /\ current_session' = [id |-> session_id, start_time |-> tclock,
                                        end_time |-> tclock + duration]
                 /\ lockdown' = TRUE
            ELSE UNCHANGED <<termSent, current_session, lockdown>>
    /\ UNCHANGED <<tclock, term, ended, nWarn>>
    /\ TermOnly

\* handle_start_session(message) and, through the session_started signal,
\* GamingCenterClient.start_session.  fail names the step that raises:
\* "keygen" (generate_session_key), "ack" (encrypt_message / send), or "none".
\* SessionManager.start_session assigns session_id, session_start and
\* session_duration before it derives the key; the except clause of the
\* handler only logs and shows the error
handle_start_session(duration, fail) ==
    /\ nStarts < MaxSessions
    /\ nStarts' = nStarts + 1
    /\ LET session_id == nStarts + 1 IN
       /\ session_manager' =
            [session_key      |-> IF fail = "keygen" THEN session_manager.session_key
                                                     ELSE nextKey,
             session_id       |-> session_id,
             session_start    |-> tclock,
             session_duration |-> duration,
             last_activity    |-> tclock,
             inactivity_timer |-> IF fail = "keygen"
                                    THEN session_manager.inactivity_timer ELSE TRUE]
       /\ nextKey' = IF fail = "keygen" THEN nextKey ELSE nextKey + 1
       /\ IF fail = "none"
            THEN /\ ClientSend(encrypt_message(nextKey,
                                   [type |-> "session_started",
                                    session_id |-> session_id,
                                    session_key |-> nextKey]))
                 /\ current_session' = [id |-> session_id, start_time |-> tclock,
                                        end_time |-> tclock + duration]
                 /\ lockdown' = TRUE
            ELSE UNCHANGED <<termSent, current_session, lockdown>>
    /\ UNCHANGED <<tclock, term, ended, nWarn>>
    /\ TermOnly

\* GamingCenterClient.end_session up to payment_dialog.exec(): with a session,
\* compute the elapsed minutes and open the dialog (a nested event loop);
\* without one, nothing.  id is the session whose end this call began, the
\* one the duration was computed for
OpenDialog(force_end) ==
    IF current_session # NoSession
      THEN term' = Append(term, [force_end |-> force_end,
                                 id |-> current_session.id,
                                 duration |-> (tclock - current_session.start_time) * 60])
      ELSE UNCHANGED term

\* handle_end_session(message): session_ended.emit(force_end) -> end_session
handle_end_session(force_end) ==
    /\ nStarts > 0
    /\ Len(term) < MaxDialogs
    /\ current_session # NoSession
    /\ OpenDialog(force_end)
    /\ UNCHANGED <<tclock, current_session, session_manager, lockdown, nStarts,
                   termSent, nextKey, ended, nWarn>>
    /\ TermOnly

\* end_session_btn.clicked / kiosk_window.logout_requested -> end_session()
logout_requested ==
    /\ current_session # NoSession
    /\ Len(term) < MaxDialogs
    /\ OpenDialog(FALSE)
    /\ UNCHANGED <<tclock, current_session, session_manager, lockdown, nStarts,
                   termSent, nextKey, ended, nWarn>>
    /\ TermOnly

\* update_timer tick: no time remaining -> end_session()
update_status ==
    /\ current_session # NoSession
    /\ current_session.end_time - tclock <= 0
    /\ Len(term) < MaxDialogs
    /\ OpenDialog(FALSE)
    /\ UNCHANGED <<tclock, current_session, session_manager, lockdown, nStarts,
                   termSent, nextKey, ended, nWarn>>
    /\ TermOnly

\* eventFilter / mouseMoveEvent: SessionManager.update_activity()
update_activity ==
    /\ session_manager' = [session_manager EXCEPT !.last_activity = tclock]
    /\ UNCHANGED <<tclock, current_session, lockdown, term, nStarts,
                   termSent, nextKey, ended, nWarn>>
    /\ TermOnly

\* Variant of the inactivity handler that ends the session it warns about.
check_inactivity_ends ==
    /\ session_manager.inactivity_timer
    /\ nWarn < MaxWarn
    /\ IF session_manager.last_activity # NoneInt
          /\ (tclock - session_manager.last_activity) * SecondsPerHour >= inactivity_timeout
         THEN /\ session_manager' = NoManager
              /\ current_session' = NoSession
              /\ nWarn' = nWarn + 1
         ELSE UNCHANGED <<session_manager, current_session, nWarn>>
    /\ UNCHANGED <<tclock, lockdown, term, nStarts, termSent, nextKey, ended>>
    /\ TermOnly

\* inactivity_timer.timeout -> _check_inactivity, and _handle_inactivity when
\* the user has been inactive for inactivity_timeout seconds: the warning box
\* is shown and last_activity is reset
check_inactivity ==
    /\ session_manager.inactivity_timer
    /\ nWarn < MaxWarn
    /\ IF session_manager.last_activity # NoneInt
          /\ (tclock - session_manager.last_activity) * SecondsPerHour >= inactivity_timeout
         THEN /\ session_manager' = [session_manager EXCEPT !.last_activity = tclock]
              /\ nWarn' = nWarn + 1
         ELSE UNCHANGED <<session_manager, nWarn>>
    /\ UNCHANGED <<tclock, current_session, lockdown, term, nStarts,
                   termSent, nextKey, ended>>
    /\ TermOnly

\* Variant of the end of end_session that reports the session the dialog was
\* opened for, whether or not it is still the current one.
end_session_finish_own_id(accepted, input) ==
    /\ term # <<>>
    /\ LET d == term[Len(term)] IN
       IF accepted
         THEN ClientSend([type |-> "session_end",
                          session_id |-> d.id,
                          duration |-> d.duration,
                          amount |-> IF input.amount = NoneInt
                                       THEN calculate_default_amount(d.duration)
                                       ELSE input.amount,
                          payment_method |-> input.method])
         ELSE UNCHANGED termSent
    /\ term' = SubSeq(term, 1, Len(term) - 1)
    /\ lockdown' = FALSE
    /\ session_manager' = NoManager
    /\ current_session' = NoSession
    /\ ended' = [force_end |-> term[Len(term)].force_end, accepted |-> accepted]
    /\ UNCHANGED <<tclock, nStarts, nextKey, nWarn>>
    /\ TermOnly

\* Variant of the end of end_session in which a cancelled dialog returns
\* before the teardown.
end_session_finish_cancel_returns(accepted, input) ==
    /\ term # <<>>
    /\ LET d == term[Len(term)] IN
       IF accepted /\ current_session # NoSession
         THEN ClientSend([type |-> "session_end",
                          session_id |-> current_session.id,
                          duration |-> d.duration,
                          amount |-> IF input.amount = NoneInt
                                       THEN calculate_default_amount(d.duration)
                                       ELSE input.amount,
                          payment_method |-> input.method])
         ELSE UNCHANGED termSent
    /\ term' = SubSeq(term, 1, Len(term) - 1)
    /\ IF accepted
         THEN /\ lockdown' = FALSE
              /\ session_manager' = NoManager
              /\ current_session' = NoSession
         ELSE UNCHANGED <<lockdown, session_manager, current_session>>
    /\ ended' = [force_end |-> term[Len(term)].force_end, accepted |-> accepted]
    /\ UNCHANGED <<tclock, nStarts, nextKey, nWarn>>
    /\ TermOnly

\* the innermost payment dialog returns and end_session runs to its end:
\* Accepted -> send session_end (self.current_session['id'] raises when an inner
\* call already cleared the session; the except clause logs it);
\* otherwise "return"; in both cases the finally block tears the session down
end_session_finish(accepted, input) ==
    /\ term # <<>>
    /\ LET d == term[Len(term)] IN
       IF accepted /\ current_session # NoSession
         THEN ClientSend([type |-> "session_end",
                          session_id |-> current_session.id,
                          duration |-> d.duration,
                          amount |-> IF input.amount = NoneInt
                                       THEN calculate_default_amount(d.duration)
                                       ELSE input.amount,
                          payment_method |-> input.method])
         ELSE UNCHANGED termSent
    /\ term' = SubSeq(term, 1, Len(term) - 1)
    /\ lockdown' = FALSE
    /\ session_manager' = NoManager
    /\ current_session' = NoSession
    /\ ended' = [force_end |-> term[Len(term)].force_end, accepted |-> accepted]
    /\ UNCHANGED <<tclock, nStarts, nextKey, nWarn>>
    /\ TermOnly

NextTerm ==
    \/ TermTick
    \/ \E d \in Durations, fail \in {"none", "keygen", "ack"} : handle_start_session(d, fail)
    \/ handle_end_session(TRUE)
    \/ logout_requested
    \/ update_status
    \/ \E accepted \in BOOLEAN, input \in DialogInputs : end_session_finish(accepted, input)

\* the starts of sessions, each ended by the operator
NextStart ==
    \/ TermTick
    \/ \E d \in Durations, fail \in {"none", "keygen", "ack"} : handle_start_session(d, fail)
    \/ handle_end_session(TRUE)
    \/ \E accepted \in BOOLEAN :
           end_session_finish(accepted, [amount |-> NoneInt, method |-> "Cash"])

\* the ends of one-hour sessions: the countdown, the user, the operator
NextEnd ==
    \/ TermTick
    \/ handle_start_session(1, "none")
    \/ handle_end_session(TRUE)
    \/ logout_requested
    \/ update_status
    \/ \E accepted \in BOOLEAN :
           end_session_finish(accepted, [amount |-> NoneInt, method |-> "Cash"])

\* the terminal with its user's activity and the inactivity timer
NextIdle ==
    \/ TermTick
    \/ \E fail \in {"none", "keygen"} : handle_start_session(2, fail)
    \/ handle_end_session(TRUE)
    \/ \E accepted \in BOOLEAN :
           end_session_finish(accepted, [amount |-> NoneInt, method |-> "Cash"])
    \/ update_activity
    \/ check_inactivity

(***************************************************************************)
(* The terminal's connection and main window: connect_to_server at start, *)
(* the connection_lost event and the reconnect it schedules, and          *)
(* computer_removed, which closes the window through closeEvent.          *)
(***************************************************************************)
MaxLost == 3                        \* connection_lost events in one run

InitApp ==
    app = [pc |-> "init", connected |-> FALSE, status |-> "", timers |-> 0,
           lost |-> 0, attempts |-> 0, lastFailed |-> FALSE,
           removed |-> FALSE, closed |-> FALSE]

\* connect_to_server(): network.connect returns True ("ok") or False ("fail"),
\* or the port text is not a number ("error"); the status label says which
connect_to_server(a, result) ==
    [a EXCEPT !.attempts = @ + 1,
              !.connected = (result = "ok"),
              !.lastFailed = (result # "ok"),
              !.status = CASE result = "ok"   -> "Connected to server"
                           [] result = "fail" -> "Failed to connect to server"
                           [] OTHER           -> "Error connecting to server"]

\* GamingCenterClient.__init__: ... self.connect_to_server()
AppStart(result) ==
    /\ app.pc = "init"
    /\ app' = [connect_to_server(app, result) EXCEPT !.pc = "running"]
    /\ UNCHANGED termVars
    /\ AppOnly

\* the supervisor of the terminal's NetworkManager raises connection_lost;
\* handle_connection_lost sets the label and arms one single-shot timer
handle_connection_lost ==
    /\ app.pc = "running"
    /\ ~app.closed
    /\ app.lost < MaxLost
    /\ app' = [app EXCEPT !.connected = FALSE, !.lost = @ + 1, !.timers = @ + 1,
                          !.status = "Connection lost - attempting to reconnect..."]
    /\ UNCHANGED termVars
    /\ AppOnly

\* the single-shot timer fires: reconnect_to_server()
reconnect_to_server(result) ==
    /\ app.timers > 0
    /\ ~app.closed
    /\ app' = IF app.connected THEN [app EXCEPT !.timers = @ - 1]
                               ELSE [connect_to_server(app, result) EXCEPT !.timers = @ - 1]
    /\ UNCHANGED termVars
    /\ AppOnly

\* handle_computer_removed(message): the information box, then self.close(),
\* which runs closeEvent: without a session the event is accepted; with one
\* the user is asked, "No" ignores the event, "Yes" runs end_session() (the
\* payment dialog accepted or cancelled, then the teardown) and accepts it
handle_computer_removed(reply, accepted, input) ==
    /\ app.pc = "running"
    /\ app.connected
    /\ ~app.removed
    /\ ~app.closed
    /\ term = <<>>
    /\ IF current_session = NoSession
         THEN /\ app' = [app EXCEPT !.removed = TRUE, !.closed = TRUE]
              /\ UNCHANGED termVars
         ELSE IF reply = "No"
           THEN /\ app' = [app EXCEPT !.removed = TRUE]
                /\ UNCHANGED termVars
           ELSE /\ app' = [app EXCEPT !.removed = TRUE, !.closed = TRUE]
                /\ IF accepted
                     THEN ClientSend([type |-> "session_end",
                                      session_id |-> current_session.id,
                                      duration |-> (tclock - current_session.start_time) * 60,
                                      amount |-> IF input.amount = NoneInt
                                                   THEN calculate_default_amount(
                                                          (tclock - current_session.start_time) * 60)
                                                   ELSE input.amount,
                                      payment_method |-> input.method])
                     ELSE UNCHANGED termSent
                /\ lockdown' = FALSE
                /\ session_manager' = NoManager
                /\ current_session' = NoSession
                /\ ended' = [force_end |-> FALSE, accepted |-> accepted]
                /\ UNCHANGED <<tclock, term, nStarts, nextKey, nWarn>>
    /\ AppOnly

\* the terminal from its start: sessions, connection losses, removal
NextApp ==
    \/ \E result \in {"ok", "fail", "error"} : AppStart(result)
    \/ handle_connection_lost
    \/ \E result \in {"ok", "fail"} : reconnect_to_server(result)
    \/ TermTick
    \/ handle_start_session(1, "none")
    \/ \E reply \in {"Yes", "No"}, accepted \in BOOLEAN :
           handle_computer_removed(reply, accepted, [amount |-> NoneInt, method |-> "Cash"])

(***************************************************************************)
(* Session lifecycle, server side: GamingCenterServer + DatabaseManager.  *)
(* The operator acts on the UI thread; session_end messages are handled   *)
(* on the connection's reader thread.                                     *)
(***************************************************************************)
MaxSent == 2                        \* commands the server sends in one run
MaxPay  == 2                        \* rows of the payments table

MsgIds     == 1..(MaxSessions + 1)  \* session ids a session_end may name
MsgMinutes == {0, 60}               \* its duration
NoRow      == [status |-> "absent", duration |-> NoneInt, amount |-> NoneInt]

InitServer ==
    /\ sessions = [id \in SessionIds |-> NoRow]
    /\ payments = <<>>
    /\ srv = [pc |-> "idle", id |-> 0, notice |-> "none"]
    /\ srvSent = <<>>

\* DatabaseManager.start_session: INSERT INTO sessions ..., return lastrowid
DbStartSession(db, id) == [db EXCEPT ![id] = [NoRow EXCEPT !.status = "active"]]

\* Variant of the update that completes the row without the values given.
DbEndSessionZero(db, id, duration, amount) ==
    IF id \in SessionIds /\ db[id].status # "absent"
      THEN [db EXCEPT ![id] = [status |-> "completed", duration |-> 0, amount |-> 0]]
      ELSE db

\* DatabaseManager.end_session: UPDATE sessions SET duration_minutes, amount_paid,
\* status = 'completed' WHERE id = ?   (no row, no change)
DbEndSession(db, id, duration, amount) ==
    IF id \in SessionIds /\ db[id].status # "absent"
      THEN [db EXCEPT ![id] = [status |-> "completed", duration |-> duration,
                               amount |-> amount]]
      ELSE db

\* DatabaseManager.add_payment: INSERT INTO payments ...
DbAddPayment(p, id, amount, method) ==
    Append(p, [session_id |-> id, amount |-> amount, payment_method |-> method])

\* GamingCenterServer.start_session: db.start_session, then send_message
\* (whose result is not looked at); ok = the send succeeded.  srv.notice is
\* the message box the operator's last action ended with, "none" for none
OpStartSession(duration, ok) ==
    /\ srv.pc = "idle"
    /\ Len(srvSent) < MaxSent
    /\ \E id \in SessionIds :
         /\ sessions[id].status = "absent"
         /\ \A j \in SessionIds : j < id => sessions[j].status # "absent"
         /\ sessions' = DbStartSession(sessions, id)
         /\ srvSent' = IF ok THEN Append(srvSent, [type |-> "start_session",
                                                   session_id |-> id,
                                                   duration |-> duration])
                             ELSE srvSent
    /\ srv' = [srv EXCEPT !.notice = "none"]
    /\ UNCHANGED payments
    /\ SrvOnly

\* GamingCenterServer.end_session, operator answered Yes, session and computer
\* found: send end_session{force_end: True}; on success time.sleep(1) follows,
\* on failure a warning and nothing else
OpEndSend(id, ok) ==
    /\ srv.pc = "idle"
    /\ Len(srvSent) < MaxSent
    /\ sessions[id].status # "absent"
    /\ IF ok
         THEN /\ srvSent' = Append(srvSent, [type |-> "end_session", session_id |-> id,
                                             force_end |-> TRUE])
              /\ srv' = [pc |-> "end_sleep", id |-> id, notice |-> "none"]
         ELSE /\ srv' = [srv EXCEPT !.notice = "warning"]
              /\ UNCHANGED srvSent
    /\ UNCHANGED <<sessions, payments>>
    /\ SrvOnly

\* ... after the sleep: self.db.end_session(session_id, 0, 0)
OpEndWrite ==
    /\ srv.pc = "end_sleep"
    /\ sessions' = DbEndSession(sessions, srv.id, 0, 0)
    /\ srv' = [pc |-> "idle", id |-> 0, notice |-> "information"]
    /\ UNCHANGED <<payments, srvSent>>
    /\ SrvOnly

\* handle_session_end(message, client_ip), on the reader thread
handle_session_end(m) ==
    /\ Len(payments) < MaxPay
    /\ sessions' = DbEndSession(sessions, m.session_id, m.duration, m.amount)
    /\ payments' = DbAddPayment(payments, m.session_id, m.amount, m.payment_method)
    /\ UNCHANGED <<srv, srvSent>>
    /\ SrvOnly

\* the session_end messages a terminal builds in end_session
SessionEndMsgs ==
    {[type |-> "session_end", session_id |-> id, duration |-> minutes,
      amount |-> IF input.amount = NoneInt THEN calculate_default_amount(minutes)
                                           ELSE input.amount,
      payment_method |-> input.method] :
        id \in MsgIds, minutes \in MsgMinutes, input \in DialogInputs}

NextServer ==
    \/ \E d \in Durations, ok \in BOOLEAN : OpStartSession(d, ok)
    \/ \E id \in SessionIds, ok \in BOOLEAN : OpEndSend(id, ok)
    \/ OpEndWrite
    \/ \E m \in SessionEndMsgs : handle_session_end(m)

\* the server with the session_end messages of sessions that lasted an hour
NextPay ==
    \/ \E ok \in BOOLEAN : OpStartSession(1, ok)
    \/ \E id \in SessionIds, ok \in BOOLEAN : OpEndSend(id, ok)
    \/ OpEndWrite
    \/ \E m \in {x \in SessionEndMsgs : x.duration = 60} : handle_session_end(m)

(***************************************************************************)
(* Wire codec, character by character: send_message writes                *)
(* json.dumps(message) + '\n'; the reader applies json.loads to the frame. *)
(* A message is a dict with string keys: a sequence of [k, val] entries;  *)
(* a value is [t, v] with t its Python type and v its characters.         *)
(***************************************************************************)
MaxStr == 2                         \* longest string value, in characters

Chars  == {"a", "\"", "\\", NL}      \* a letter, a quote, a backslash, a newline
Digits == {"0", "4", "7"}
Space  == " "

RECURSIVE SeqsUpTo(_, _)
SeqsUpTo(S, n) ==
    IF n = 0 THEN {<<>>}
    ELSE LET shorter == SeqsUpTo(S, n - 1) IN
         shorter \cup {Append(s, c) : s \in shorter, c \in S}

\* the values a message of this program carries
JsonValues ==
    {[t |-> "str", v |-> s] : s \in SeqsUpTo(Chars, MaxStr)}
      \cup {[t |-> "int", v |-> d] : d \in {<<"0">>, <<"7">>, <<"7", "0">>}}
      \cup {[t |-> "float", v |-> <<"4", ".", "0">>]}
      \cup {[t |-> "lit", v |-> <<l>>] : l \in {"true", "false", "null"}}

\* {'type': T} and {'type': T, 'a': value}
Envelopes ==
    LET types == {[t |-> "str", v |-> <<"a">>], [t |-> "str", v |-> <<"a", "a">>]} IN
    {<<[k |-> <<"t">>, val |-> ty]>> : ty \in types}
      \cup {<<[k |-> <<"t">>, val |-> ty], [k |-> <<"a">>, val |-> x]>> :
                ty \in types, x \in JsonValues}

ParseFail == [ok |-> FALSE, val |-> <<>>, rest |-> <<>>]

\* Variant of the string escaping that leaves a quote as it is.
RECURSIVE EscapeNoQuote(_)
EscapeNoQuote(s) ==
    IF s = <<>> THEN <<>>
    ELSE LET c == Head(s) IN
         (CASE c = "\\" -> <<"\\", "\\">>
            [] c = NL   -> <<"\\", "n">>
            [] OTHER    -> <<c>>) \o EscapeNoQuote(Tail(s))

\* json.dumps of a str: quote, backslash and control characters are escaped
RECURSIVE Escape(_)
Escape(s) ==
    IF s = <<>> THEN <<>>
    ELSE LET c == Head(s) IN
         (CASE c = "\"" -> <<"\\", "\"">>
            [] c = "\\" -> <<"\\", "\\">>
            [] c = NL   -> <<"\\", "n">>
            [] OTHER    -> <<c>>) \o Escape(Tail(s))

DumpsStr(s) == <<"\"">> \o Escape(s) \o <<"\"">>

DumpsValue(x) == IF x.t = "str" THEN DumpsStr(x.v) ELSE x.v

\* json.dumps of a dict: items joined by ", ", key and value by ": "
RECURSIVE DumpsItems(_)
DumpsItems(d) ==
    IF d = <<>> THEN <<>>
    ELSE DumpsStr(d[1].k) \o <<":", Space>> \o DumpsValue(d[1].val)
           \o (IF Len(d) > 1 THEN <<",", Space>> ELSE <<>>) \o DumpsItems(Tail(d))

json_dumps(d) == <<"{">> \o DumpsItems(d) \o <<"}">>

\* (json.dumps(message) + '\n').encode('utf-8')
encode(d) == json_dumps(d) \o <<NL>>

\* json.loads --------------------------------------------------------------
\* skip whitespace
RECURSIVE SkipWs(_)
SkipWs(b) == IF b # <<>> /\ Head(b) \in {Space, NL} THEN SkipWs(Tail(b)) ELSE b

\* the characters of a string up to its closing quote; a raw control
\* character or an unknown escape is an error
RECURSIVE ReadChars(_, _)
ReadChars(b, acc) ==
    IF b = <<>> THEN ParseFail
    ELSE LET c == Head(b) IN
         CASE c = "\"" -> [ok |-> TRUE, val |-> acc, rest |-> Tail(b)]
           [] c = NL   -> ParseFail
           [] c = "\\" ->
                  IF Len(b) < 2 THEN ParseFail
                  ELSE (CASE b[2] = "\"" -> ReadChars(SubSeq(b, 3, Len(b)), Append(acc, "\""))
                          [] b[2] = "\\" -> ReadChars(SubSeq(b, 3, Len(b)), Append(acc, "\\"))
                          [] b[2] = "n"  -> ReadChars(SubSeq(b, 3, Len(b)), Append(acc, NL))
                          [] OTHER       -> ParseFail)
           [] OTHER    -> ReadChars(Tail(b), Append(acc, c))

\* the characters of a number
RECURSIVE ReadNumber(_, _)
ReadNumber(b, acc) ==
    IF b # <<>> /\ Head(b) \in Digits \cup {"."}
      THEN ReadNumber(Tail(b), Append(acc, Head(b)))
      ELSE [ok |-> acc # <<>>, val |-> acc, rest |-> b]

\* one value: a string, a number (float if it has a point), true/false/null
ParseValue(b) ==
    IF b = <<>> THEN ParseFail
    ELSE CASE Head(b) = "\"" ->
                LET r == ReadChars(Tail(b), <<>>) IN
                IF r.ok THEN [r EXCEPT !.val = [t |-> "str", v |-> r.val]] ELSE ParseFail
           [] Head(b) \in Digits ->
                LET r == ReadNumber(b, <<>>) IN
                [r EXCEPT !.val = [t |-> IF \E i \in 1..Len(r.val) : r.val[i] = "."
                                          THEN "float" ELSE "int",
                                   v |-> r.val]]
           [] Head(b) \in {"true", "false", "null"} ->
                [ok |-> TRUE, val |-> [t |-> "lit", v |-> <<Head(b)>>], rest |-> Tail(b)]
           [] OTHER -> ParseFail

\* "key": value [, "key": value]* }   -- a repeated key keeps its first
\* position and takes the last value, as a dict does
RECURSIVE ParseItems(_, _)
ParseItems(b, acc) ==
    LET b1 == SkipWs(b) IN
    IF b1 = <<>> \/ Head(b1) # "\"" THEN ParseFail
    ELSE LET key == ReadChars(Tail(b1), <<>>) IN
         IF ~key.ok THEN ParseFail
         ELSE LET b2 == SkipWs(key.rest) IN
              IF b2 = <<>> \/ Head(b2) # ":" THEN ParseFail
              ELSE LET x == ParseValue(SkipWs(Tail(b2))) IN
                   IF ~x.ok THEN ParseFail
                   ELSE LET b3   == SkipWs(x.rest)
                            acc2 == DictSet(acc, key.val, [id |-> key.val, val |-> x.val])
                        IN  IF b3 = <<>> THEN ParseFail
                            ELSE IF Head(b3) = "}"
                                   THEN [ok |-> TRUE, val |-> acc2, rest |-> Tail(b3)]
                            ELSE IF Head(b3) = ","
                                   THEN ParseItems(Tail(b3), acc2)
                            ELSE ParseFail

\* json.loads(text): one object, whitespace around it, nothing after it
json_loads(text) ==
    LET b == SkipWs(text) IN
    IF b = <<>> \/ Head(b) # "{" THEN ParseFail
    ELSE LET b1 == SkipWs(Tail(b)) IN
         IF b1 # <<>> /\ Head(b1) = "}"
           THEN [ok |-> SkipWs(Tail(b1)) = <<>>, val |-> <<>>, rest |-> <<>>]
           ELSE LET r == ParseItems(b1, <<>>) IN
                IF r.ok /\ SkipWs(r.rest) = <<>>
                  THEN [ok |-> TRUE,
                        val |-> [i \in 1..Len(r.val) |-> [k |-> r.val[i].id,
                                                          val |-> r.val[i].val]],
                        rest |-> <<>>]
                  ELSE ParseFail

InitCodec ==
    /\ envelope = <<>>
    /\ frame = <<>>
    /\ decoded = ParseFail
    /\ codecPc = "idle"

\* a caller hands a message to send_message
ChooseEnvelope(e) ==
    /\ codecPc = "idle"
    /\ envelope' = e
    /\ codecPc' = "chosen"
    /\ UNCHANGED <<frame, decoded>>
    /\ CodecOnly

\* send_message: sendall((json.dumps(message) + '\n').encode('utf-8'))
Encode ==
    /\ codecPc = "chosen"
    /\ frame' = encode(envelope)
    /\ codecPc' = "encoded"
    /\ UNCHANGED <<envelope, decoded>>
    /\ CodecOnly

\* _handle_client: recv returns the frame; json.loads(data.decode('utf-8'))
Decode ==
    /\ codecPc = "encoded"
    /\ decoded' = json_loads(frame)
    /\ codecPc' = "decoded"
    /\ UNCHANGED <<envelope, frame>>
    /\ CodecOnly

NextCodec ==
    \/ \E e \in Envelopes : ChooseEnvelope(e)
    \/ Encode
    \/ Decode

(***************************************************************************)
(* The listen loop datagram by datagram: recvfrom, json.loads, the filter *)
(* (nothing configured), _update_server_info; any exception in the body   *)
(* is logged, the loop sleeps a second and goes on.                       *)
(***************************************************************************)
MaxDatagrams == 3                   \* datagrams the listen loop receives in one run

Key(name) ==
    CASE name = "name"    -> <<"n", "a", "m", "e">>
      [] name = "port"    -> <<"p", "o", "r", "t">>
      [] name = "version" -> <<"v", "e", "r", "s", "i", "o", "n">>
      [] name = "status"  -> <<"s", "t", "a", "t", "u", "s">>

\* the announcement a server in the given status sends
AnnouncementDict(st) ==
    <<[k |-> Key("name"), val |-> [t |-> "str", v |-> <<"G", "C", "S">>]],
      [k |-> Key("port"), val |-> [t |-> "int", v |-> <<"7", "0">>]],
      [k |-> Key("version"), val |-> [t |-> "str", v |-> <<"1", ".", "0">>]],
      [k |-> Key("status"),
       val |-> [t |-> "str", v |-> IF st = "running"
                                     THEN <<"r", "u", "n", "n", "i", "n", "g">>
                                     ELSE <<"s", "t", "a", "r", "t", "i", "n", "g">>]]>>

\* d without the key
Without(d, name) == SelectSeq(d, LAMBDA e : e.k # Key(name))

ValidPayloads == {json_dumps(AnnouncementDict(st)) : st \in Statuses}

\* an empty datagram, text that is not JSON, a truncated announcement,
\* announcements that lack a field
BadPayloads ==
    {<<>>, <<"h", "i">>,
     SubSeq(json_dumps(AnnouncementDict("running")), 1, 9),
     json_dumps(Without(AnnouncementDict("running"), "port")),
     json_dumps(Without(AnnouncementDict("running"), "name")),
     json_dumps(Without(AnnouncementDict("running"), "status"))}

HasKey(d, name) == \E i \in 1..Len(d) : d[i].k = Key(name)

Item(d, name) == d[CHOOSE i \in 1..Len(d) : d[i].k = Key(name)].val

\* the status text as the registry model names it
StatusOf(x) == IF x.v = <<"r", "u", "n", "n", "i", "n", "g">> THEN "running" ELSE "starting"

\* what the body of the loop does with the bytes of one datagram:
\* "json" json.loads raises, "key" _update_server_info raises KeyError
\* (info['port'] first, then the ServerInfo arguments), "accepted" otherwise
Outcome(data) ==
    LET r == json_loads(data) IN
    IF ~r.ok THEN "json"
    ELSE IF \E name \in {"port", "name", "version", "status"} : ~HasKey(r.val, name)
      THEN "key"
    ELSE "accepted"

\* Variant of the loop whose except clause is outside the while: an
\* exception in the body ends the loop.
RecvDatagramExits(addr, data) ==
    /\ listener.pc = "recv"
    /\ nRecv < MaxDatagrams
    /\ nRecv' = nRecv + 1
    /\ listenLog' = Append(listenLog, [addr |-> addr, valid |-> data \in ValidPayloads,
                                    outcome |-> Outcome(data)])
    /\ IF Outcome(data) = "accepted"
         THEN /\ listener' = [pc |-> "store", id |-> addr,
                              status |-> StatusOf(Item(json_loads(data).val, "status")),
                              now |-> now, is_new |-> addr \notin Ids(servers)]
              /\ nAnn' = [nAnn EXCEPT ![addr] = IF addr \notin Ids(servers) THEN 1
                                                ELSE IF @ >= 1 THEN @ + 1 ELSE 0]
              /\ nFound' = [nFound EXCEPT ![addr] =
                                IF addr \notin Ids(servers) THEN 0 ELSE @]
         ELSE /\ listener' = [ListenerIdle EXCEPT !.pc = "exited"]
              /\ UNCHANGED <<nAnn, nFound>>
    /\ UNCHANGED <<now, servers, sweep, probe, nLost>>
    /\ UNCHANGED <<version_constraint, required_features, lastAnn>>
    /\ UNCHANGED lastNote
    /\ AcceptOnly

\* one datagram from the sender addr (the server id is the sender with the
\* announced port, the same in every announcement here): recvfrom, json.loads,
\* _meets_requirements (True), _update_server_info up to the membership test;
\* an exception is logged and the loop sleeps
RecvDatagram(addr, data) ==
    /\ listener.pc = "recv"
    /\ nRecv < MaxDatagrams
    /\ nRecv' = nRecv + 1
    /\ listenLog' = Append(listenLog, [addr |-> addr, valid |-> data \in ValidPayloads,
                                    outcome |-> Outcome(data)])
    /\ IF Outcome(data) = "accepted"
         THEN /\ listener' = [pc |-> "store", id |-> addr,
                              status |-> StatusOf(Item(json_loads(data).val, "status")),
                              now |-> now, is_new |-> addr \notin Ids(servers)]
              /\ nAnn' = [nAnn EXCEPT ![addr] = IF addr \notin Ids(servers) THEN 1
                                                ELSE IF @ >= 1 THEN @ + 1 ELSE 0]
              /\ nFound' = [nFound EXCEPT ![addr] =
                                IF addr \notin Ids(servers) THEN 0 ELSE @]
         ELSE /\ listener' = [ListenerIdle EXCEPT !.pc = "sleep"]
              /\ UNCHANGED <<nAnn, nFound>>
    /\ UNCHANGED <<now, servers, sweep, probe, nLost>>
    /\ UNCHANGED <<version_constraint, required_features, lastAnn>>
    /\ UNCHANGED lastNote
    /\ AcceptOnly

\* self.on_server_found(...) raises: the entry is stored already; the loop's
\* except clause logs the error and sleeps
UpdateNotifyRaises ==
    /\ listener.pc = "notify"
    /\ nFound' = [nFound EXCEPT ![listener.id] = @ + 1]
    /\ listener' = [ListenerIdle EXCEPT !.pc = "sleep"]
    /\ listenLog' = [listenLog EXCEPT ![Len(listenLog)].outcome = "callback"]
    /\ UNCHANGED <<now, servers, sweep, probe, nAnn, nLost>>
    /\ UNCHANGED <<version_constraint, required_features, lastAnn, nRecv>>
    /\ lastNote' = [lastNote EXCEPT ![listener.id] = "found"]
    /\ AcceptOnly

\* time.sleep(1) in the except clause returns: back to "while self.running"
ListenerWake ==
    /\ listener.pc = "sleep"
    /\ listener' = ListenerIdle
    /\ UNCHANGED <<now, servers, sweep, probe, nFound, nAnn, nLost>>
    /\ UNCHANGED lastNote
    /\ DiscOnly

\* the running listener and the datagrams that reach it
NextListen ==
    \/ \E addr \in ServerIds, data \in ValidPayloads \cup BadPayloads :
           RecvDatagram(addr, data)
    \/ UpdateStore
    \/ UpdateNotify
    \/ UpdateNotifyRaises
    \/ ListenerWake
    \/ Tick

(***************************************************************************)
(* DiscoveryService: the broadcaster.  __init__ discovers the interfaces, *)
(* start() launches _broadcast_loop, which binds one socket per interface *)
(* and then, while running, sends the announcement on each socket and     *)
(* sleeps broadcast_interval.                                             *)
(***************************************************************************)
MaxTicks == 2                       \* broadcast ticks in one run
MaxUpdates == 2                     \* calls of update_server_info in one run

Interfaces == <<"eth0", "wlan0">>   \* netifaces.interfaces(), in order

Range(s) == {s[i] : i \in 1..Len(s)}

\* the sub-sequences of Interfaces: what _discover_network_interfaces may find
InterfaceLists ==
    {SelectSeq(Interfaces, LAMBDA x : x \in S) : S \in SUBSET Range(Interfaces)}

\* self.server_info as __init__ sets it: a dict in the codec's representation
\* (port, version and features are carried like name and status)
InitialServerInfo ==
    <<[k |-> <<"n", "a", "m", "e">>, val |-> [t |-> "str", v |-> <<"G", "C", "S">>]],
      [k |-> <<"s", "t", "a", "t", "u", "s">>,
       val |-> [t |-> "str", v |-> <<"r", "u", "n", "n", "i", "n", "g">>]]>>

\* the keyword arguments of the calls of update_server_info
Kwargs ==
    {<<[k |-> <<"n", "a", "m", "e">>, val |-> [t |-> "str", v |-> <<"G", "C", "S", Space, "7">>]]>>,
     <<[k |-> <<"s", "t", "a", "t", "u", "s">>, val |-> [t |-> "str", v |-> <<"b", "u", "s", "y">>]]>>,
     <<[k |-> <<"n", "a", "m", "e">>, val |-> [t |-> "str", v |-> <<"\"", "G", "\"">>]],
       [k |-> <<"l", "o", "a", "d">>, val |-> [t |-> "int", v |-> <<"7", "0">>]]>>}

\* d[k] = v of a dict: a known key keeps its position, a new key goes last
SetItem(d, k, v) ==
    IF \E i \in 1..Len(d) : d[i].k = k
      THEN [i \in 1..Len(d) |-> IF d[i].k = k THEN [k |-> k, val |-> v] ELSE d[i]]
      ELSE Append(d, [k |-> k, val |-> v])

\* dict.update(kwargs)
RECURSIVE dict_update(_, _)
dict_update(d, kwargs) ==
    IF kwargs = <<>> THEN d
    ELSE dict_update(SetItem(d, kwargs[1].k, kwargs[1].val), Tail(kwargs))

\* message, out, tickInfo: the bytes serialized in the current tick, the
\* datagrams sent in it, and (history) self.server_info when the tick began
InitBcast ==
    bcast = [pc |-> "new", running |-> FALSE, ifs |-> <<>>, sockets |-> <<>>,
             bindFailed |-> {}, i |-> 0, tick |-> 0, sent |-> {}, failed |-> {},
             reported |-> FALSE,
             server_info |-> InitialServerInfo, nUpd |-> 0,
             message |-> <<>>, out |-> {}, tickInfo |-> <<>>]

\* DiscoveryService.__init__: _discover_network_interfaces()
DiscoverNetworkInterfaces(ifs) ==
    /\ bcast.pc = "new"
    /\ bcast' = [bcast EXCEPT !.pc = "idle", !.ifs = ifs]
    /\ UNCHANGED <<dc, nm>>
    /\ LoopOnly

\* DiscoveryService.start()
BcastStart ==
    /\ bcast.pc = "idle"
    /\ ~bcast.running
    /\ bcast' = [bcast EXCEPT !.pc = "setup", !.running = TRUE, !.i = 1]
    /\ UNCHANGED <<dc, nm>>
    /\ LoopOnly

\* _broadcast_loop, socket creation for one interface: socket, setsockopt,
\* bind; an exception is logged and the interface is left out
BcastBind(ok) ==
    /\ bcast.pc = "setup"
    /\ bcast.i <= Len(bcast.ifs)
    /\ bcast' = IF ok
                  THEN [bcast EXCEPT !.sockets = Append(@, bcast.ifs[bcast.i]),
                                     !.i = @ + 1]
                  ELSE [bcast EXCEPT !.bindFailed = @ \cup {bcast.ifs[bcast.i]},
                                     !.i = @ + 1]
    /\ UNCHANGED <<dc, nm>>
    /\ LoopOnly

\* _broadcast_loop after the sockets: "if not sockets: log, return" (the
\* thread ends, self.running stays True), else on to the while loop
BcastSetupDone ==
    /\ bcast.pc = "setup"
    /\ bcast.i > Len(bcast.ifs)
    /\ bcast' = IF bcast.sockets = <<>>
                  THEN [bcast EXCEPT !.pc = "exited", !.reported = TRUE]
                  ELSE [bcast EXCEPT !.pc = "test"]
    /\ UNCHANGED <<dc, nm>>
    /\ LoopOnly

\* while self.running: a new tick begins with
\* message = json.dumps(self.server_info).encode(), or the loop ends and the
\* finally block closes the sockets
BcastTest ==
    /\ bcast.pc = "test"
    /\ bcast.running => bcast.tick < MaxTicks
    /\ bcast' = IF bcast.running
                  THEN [bcast EXCEPT !.pc = "send", !.i = 1, !.tick = @ + 1,
                                     !.sent = {}, !.failed = {},
                                     !.message = json_dumps(bcast.server_info),
                                     !.out = {}, !.tickInfo = bcast.server_info]
                  ELSE [bcast EXCEPT !.pc = "exited", !.sockets = <<>>]
    /\ UNCHANGED <<dc, nm>>
    /\ LoopOnly

\* Variant of the send that serializes self.server_info for every socket.
BcastSendFresh(ok) ==
    /\ bcast.pc = "send"
    /\ bcast.i <= Len(bcast.sockets)
    /\ bcast' = IF ok
                  THEN [bcast EXCEPT !.sent = @ \cup {bcast.sockets[bcast.i]},
                                     !.out = @ \cup {[interface |-> bcast.sockets[bcast.i],
                                                      data |-> json_dumps(bcast.server_info)]},
                                     !.i = @ + 1]
                  ELSE [bcast EXCEPT !.failed = @ \cup {bcast.sockets[bcast.i]},
                                     !.i = @ + 1]
    /\ UNCHANGED <<dc, nm>>
    /\ LoopOnly

\* Variant of the send in which a failed sendto ends the tick.
BcastSendAbort(ok) ==
    /\ bcast.pc = "send"
    /\ bcast.i <= Len(bcast.sockets)
    /\ bcast' = IF ok
                  THEN [bcast EXCEPT !.sent = @ \cup {bcast.sockets[bcast.i]},
                                     !.out = @ \cup {[interface |-> bcast.sockets[bcast.i],
                                                      data |-> bcast.message]},
                                     !.i = @ + 1]
                  ELSE [bcast EXCEPT !.failed = @ \cup {bcast.sockets[bcast.i]},
                                     !.pc = "sleep"]
    /\ UNCHANGED <<dc, nm>>
    /\ LoopOnly

\* sock.sendto(message, (interface.broadcast, self.port)) for one socket; an
\* exception is logged and the for loop goes on
BcastSend(ok) ==
    /\ bcast.pc = "send"
    /\ bcast.i <= Len(bcast.sockets)
    /\ bcast' = IF ok
                  THEN [bcast EXCEPT !.sent = @ \cup {bcast.sockets[bcast.i]},
                                     !.out = @ \cup {[interface |-> bcast.sockets[bcast.i],
                                                      data |-> bcast.message]},
                                     !.i = @ + 1]
                  ELSE [bcast EXCEPT !.failed = @ \cup {bcast.sockets[bcast.i]},
                                     !.i = @ + 1]
    /\ UNCHANGED <<dc, nm>>
    /\ LoopOnly

\* the for loop is through: time.sleep(self.broadcast_interval)
BcastSleep ==
    /\ bcast.pc = "send"
    /\ bcast.i > Len(bcast.sockets)
    /\ bcast' = [bcast EXCEPT !.pc = "sleep"]
    /\ UNCHANGED <<dc, nm>>
    /\ LoopOnly

\* the sleep returns
BcastWake ==
    /\ bcast.pc = "sleep"
    /\ bcast' = [bcast EXCEPT !.pc = "test"]
    /\ UNCHANGED <<dc, nm>>
    /\ LoopOnly

\* DiscoveryService.stop(): self.running = False (the join has a timeout)
BcastStop ==
    /\ bcast.running
    /\ bcast' = [bcast EXCEPT !.running = FALSE]
    /\ UNCHANGED <<dc, nm>>
    /\ LoopOnly

\* DiscoveryService.update_server_info(**kwargs), called from another thread
update_server_info(kwargs) ==
    /\ bcast.pc # "new"
    /\ bcast.nUpd < MaxUpdates
    /\ bcast' = [bcast EXCEPT !.server_info = dict_update(@, kwargs), !.nUpd = @ + 1]
    /\ UNCHANGED <<dc, nm>>
    /\ LoopOnly

BcastLoopStep ==
    \/ \E ok \in BOOLEAN : BcastBind(ok)
    \/ BcastSetupDone
    \/ BcastTest
    \/ \E ok \in BOOLEAN : BcastSend(ok)
    \/ BcastSleep
    \/ BcastWake

NextBcast ==
    \/ \E ifs \in InterfaceLists : DiscoverNetworkInterfaces(ifs)
    \/ BcastStart
    \/ \E ok \in BOOLEAN : BcastBind(ok)
    \/ BcastSetupDone
    \/ BcastTest
    \/ \E ok \in BOOLEAN : BcastSend(ok)
    \/ BcastSleep
    \/ BcastWake
    \/ BcastStop

\* the broadcaster on both interfaces beside a caller of update_server_info
NextAnnounce ==
    \/ DiscoverNetworkInterfaces(Interfaces)
    \/ BcastStart
    \/ \E ok \in BOOLEAN : BcastBind(ok)
    \/ BcastSetupDone
    \/ BcastTest
    \/ \E ok \in BOOLEAN : BcastSend(ok)
    \/ BcastSleep
    \/ BcastWake
    \/ BcastStop
    \/ \E kwargs \in Kwargs : update_server_info(kwargs)

(***************************************************************************)
(* Stopping: DiscoveryClient.stop() and its three loops, and               *)
(* NetworkManager.close() and the accept loop.                            *)
(***************************************************************************)
InitLoops ==
    /\ dc = [running |-> FALSE, listener |-> "none", sweeper |-> "none",
             prober |-> "none"]
    /\ nm = [closed |-> FALSE, acceptor |-> "test"]

\* DiscoveryClient.start(): the flag and the three threads
DcStart ==
    /\ ~dc.running
    /\ dc.listener = "none"
    /\ dc' = [running |-> TRUE, listener |-> "test", sweeper |-> "test",
              prober |-> "test"]
    /\ UNCHANGED <<bcast, nm>>
    /\ LoopOnly

\* DiscoveryClient.stop(): self.running = False, then joins with a timeout;
\* the listener's socket is a local of _discovery_loop and is not closed
DcStop ==
    /\ dc.running
    /\ dc' = [dc EXCEPT !.running = FALSE]
    /\ UNCHANGED <<bcast, nm>>
    /\ LoopOnly

\* _discovery_loop: while self.running -> sock.recvfrom(1024), which blocks
\* without a timeout; otherwise the loop ends and finally closes the socket
DcListenerTest ==
    /\ dc.listener = "test"
    /\ dc' = [dc EXCEPT !.listener = IF dc.running THEN "recvfrom" ELSE "exited"]
    /\ UNCHANGED <<bcast, nm>>
    /\ LoopOnly

\* a datagram arrives: recvfrom returns, the announcement is handled and the
\* loop is back at its test
DcDatagram ==
    /\ dc.listener = "recvfrom"
    /\ dc' = [dc EXCEPT !.listener = "test"]
    /\ UNCHANGED <<bcast, nm>>
    /\ LoopOnly

\* _check_timeouts: while self.running -> one sweep, then time.sleep(1)
DcSweeperTest ==
    /\ dc.sweeper = "test"
    /\ dc' = [dc EXCEPT !.sweeper = IF dc.running THEN "sleep" ELSE "exited"]
    /\ UNCHANGED <<bcast, nm>>
    /\ LoopOnly

DcSweeperWake ==
    /\ dc.sweeper = "sleep"
    /\ dc' = [dc EXCEPT !.sweeper = "test"]
    /\ UNCHANGED <<bcast, nm>>
    /\ LoopOnly

\* _check_latency: while self.running -> one pass, then
\* time.sleep(self.latency_check_interval)
DcProberTest ==
    /\ dc.prober = "test"
    /\ dc' = [dc EXCEPT !.prober = IF dc.running THEN "sleep" ELSE "exited"]
    /\ UNCHANGED <<bcast, nm>>
    /\ LoopOnly

DcProberWake ==
    /\ dc.prober = "sleep"
    /\ dc' = [dc EXCEPT !.prober = "test"]
    /\ UNCHANGED <<bcast, nm>>
    /\ LoopOnly

\* _accept_connections: the test of server_socket._closed, then accept()
NmAcceptTest ==
    /\ nm.acceptor = "test"
    /\ nm' = [nm EXCEPT !.acceptor = IF nm.closed THEN "exited" ELSE "accept"]
    /\ UNCHANGED <<bcast, dc>>
    /\ LoopOnly

\* accept() returns with a connection (a reader thread is started for it), or,
\* where the platform fails a blocked accept when the socket is closed under
\* it, raises; either way the loop is back at its test
NmAcceptReturns ==
    /\ nm.acceptor = "accept"
    /\ nm' = [nm EXCEPT !.acceptor = "test"]
    /\ UNCHANGED <<bcast, dc>>
    /\ LoopOnly

\* NetworkManager.close(): ... self.server_socket.close()
NmClose ==
    /\ ~nm.closed
    /\ nm' = [nm EXCEPT !.closed = TRUE]
    /\ UNCHANGED <<bcast, dc>>
    /\ LoopOnly

\* the steps the sweep thread and the probe thread take by themselves
DcSweeperStep == DcSweeperTest \/ DcSweeperWake
DcProberStep  == DcProberTest \/ DcProberWake

NextStop ==
    \/ \E ifs \in InterfaceLists : DiscoverNetworkInterfaces(ifs)
    \/ BcastStart
    \/ \E ok \in BOOLEAN : BcastBind(ok)
    \/ BcastSetupDone
    \/ BcastTest
    \/ \E ok \in BOOLEAN : BcastSend(ok)
    \/ BcastSleep
    \/ BcastWake
    \/ BcastStop
    \/ DcStart
    \/ DcStop
    \/ DcListenerTest
    \/ DcDatagram
    \/ DcSweeperTest
    \/ DcSweeperWake
    \/ DcProberTest
    \/ DcProberWake
    \/ NmAcceptTest
    \/ NmAcceptReturns
    \/ NmClose

(***************************************************************************)
(* Specifications                                                         *)
(***************************************************************************)
Init == InitDisc /\ InitNet /\ InitFrame /\ InitTerm /\ InitServer /\ InitCodec /\ InitAccept /\ InitQuery
            /\ InitBcast /\ InitLoops /\ InitApp

SpecDisc   == Init /\ [][NextDisc]_vars
SpecProbe  == Init /\ [][NextProbe]_vars
SpecRegistry == Init /\ [][NextRegistry]_vars
SpecMembership == Init /\ [][NextMembership]_vars
SpecNet    == Init /\ [][NextNet]_vars
SpecSend   == Init /\ [][NextSend]_vars
SpecFrame  == Init /\ [][NextFrame]_vars
SpecTerm   == Init /\ [][NextTerm]_vars
SpecIdle   == Init /\ [][NextIdle]_vars
SpecEnd    == Init /\ [][NextEnd]_vars
SpecStart  == Init /\ [][NextStart]_vars
SpecServer == Init /\ [][NextServer]_vars
SpecPay    == Init /\ [][NextPay]_vars
SpecApp    == Init /\ [][NextApp]_vars
\* the event loop of the terminal delivers every timer that was armed
SpecReconnect == /\ Init /\ [][NextApp]_vars
                 /\ WF_vars(\E result \in {"ok", "fail"} : reconnect_to_server(result))
SpecCodec  == Init /\ [][NextCodec]_vars
SpecAccept == Init /\ [][NextAccept]_vars
SpecListen == Init /\ [][NextListen]_vars
SpecBcast  == Init /\ [][NextBcast]_vars
SpecAnnounce == Init /\ [][NextAnnounce]_vars
\* every thread is scheduled again and again and its sleeps return; whether a
\* datagram or a connection ever arrives is left open
SpecStop   == /\ Init /\ [][NextStop]_vars
              /\ WF_vars(BcastLoopStep)
              /\ WF_vars(DcListenerTest)
              /\ WF_vars(DcSweeperStep)
              /\ WF_vars(DcProberStep)
              /\ WF_vars(NmAcceptTest)
\* ---------------------------------------------------------------------------
\* Properties of the discovery client (SpecDisc)
\* ---------------------------------------------------------------------------

\* the listener is between two announcements as far as id is concerned
ListenerDoneWith(id) == listener.pc = "recv" \/ listener.id # id

\* C6: whenever a sweep returns, every server that had timed out when the sweep
\* began and was not re-announced since is absent from the directory, and
\* ServerLost was fired for it exactly once.
C6_SweepRemovesAndNotifiesOnce ==
    [][ (sweep.pc # "idle" /\ sweep'.pc = "idle")
          => \A id \in sweep.due :
                /\ id \notin Ids(servers')
                /\ nLost'[id] = 1 ]_vars

C8_LostServerNotReturned ==
    \A id \in ServerIds :
        nLost[id] >= 1 => (id \notin get_available_servers /\ get_best_server.id # id)

\* ---------------------------------------------------------------------------
\* Properties of the server's connection registry (SpecNet)
\* ---------------------------------------------------------------------------

\* the reader thread of socket s has left _handle_client
ReaderExited(s) == reader[s] \in {"done", "crashed"}

\* C5: when a newer connection from an address registers, the registry entry
\* for the address refers to it, and no step of an older connection's reader
\* on its way out closes the newer socket, evicts it from the registry or
\* changes the address's status while the newer reader is serving.
C5_NewerConnectionSurvives ==
    [][ \A s1, s2 \in Socks :
          /\ (reader[s2] = "reg_clients" /\ reader'[s2] = "reg_status")
                => clients'[sock[s2].addr] = s2
          /\ ( /\ s1 < s2
               /\ sock[s1].addr = sock[s2].addr
               /\ reader[s2] = "recv"
               /\ clients[sock[s2].addr] = s2
               /\ sock[s2].state = "open"
               /\ reader[s1] \in RmPcs
               /\ reader'[s1] # reader[s1] )
                => /\ clients'[sock[s2].addr] = s2
                   /\ sock'[s2].state = "open"
                   /\ client_status'[sock[s2].addr] = client_status[sock[s2].addr]
      ]_vars

\* C9: once every reader thread started for an address has exited (and no
\* send or close is in progress), the address is not among the connected
\* clients and its status reads "offline".
C9_OfflineAfterReaderExit ==
    \A a \in Addrs :
        ( /\ \E s \in Socks : sock[s].addr = a /\ ReaderExited(s)
          /\ \A s \in Socks : sock[s].addr = a => ReaderExited(s)
          /\ sender.pc = "idle" )
            => (a \notin get_connected_clients /\ get_client_status(a) = "offline")

\* C10: send_message never raises: it returns to its caller with true or
\* false, and with true only after sendall on a connection it found
\* registered for the address.
C10_SendNeverRaises ==
    sender.pc = "ret"
        => /\ sender.result \in {"true", "false"}
           /\ (sender.result = "true" => sender.s # NoSock)

\* ---------------------------------------------------------------------------
\* Properties of the terminal's session lifecycle (SpecTerm)
\* ---------------------------------------------------------------------------

\* C1: when the payment dialog of a locally initiated end (logout, button,
\* expiry) is cancelled, the session stays ACTIVE: current_session with its
\* end_time, the session manager and the lockdown are unchanged and nothing
\* is sent.
C1_CancelKeepsSessionActive ==
    [][ ( /\ term # <<>>
          /\ ~term[Len(term)].force_end
          /\ current_session # NoSession
          /\ \E input \in DialogInputs : end_session_finish(FALSE, input) )
          => /\ current_session' = current_session
             /\ session_manager' = session_manager
             /\ lockdown' = lockdown
             /\ termSent' = termSent ]_vars

\* C3: every step that takes the terminal from ACTIVE to NONE has sent a
\* session_end carrying that session's id.
C3_EndAlwaysSendsSessionEnd ==
    [][ (current_session # NoSession /\ current_session' = NoSession)
          => /\ Len(termSent') = Len(termSent) + 1
             /\ termSent'[Len(termSent')].type = "session_end"
             /\ termSent'[Len(termSent')].session_id = current_session.id ]_vars

\* ---------------------------------------------------------------------------
\* Properties of the server's session records (SpecServer)
\* ---------------------------------------------------------------------------

\* the step made record id completed
Completes(id) == sessions[id].status # "completed" /\ sessions'[id].status = "completed"

\* C2: a session record becomes completed only in a step that handles a
\* session_end message for it; an operator's forced end sends end_session but
\* leaves the record not completed, its duration and amount unwritten.
C2_CompletedOnlyBySessionEnd ==
    [][ \A id \in SessionIds :
          Completes(id)
            => \E m \in SessionEndMsgs : m.session_id = id /\ handle_session_end(m) ]_vars

\* ---------------------------------------------------------------------------
\* Properties of the server's reader on one connection (SpecFrame)
\* ---------------------------------------------------------------------------

\* C4: as long as the peer sends only well-formed frames, however the byte
\* stream is cut into receive chunks, the reader stays
\* on the connection, what it has dispatched is a prefix of what was sent
\* (in order, nothing twice), and once it has read every byte on the wire it
\* has dispatched every message sent.
C4_InOrderExactlyOnce ==
    poisoned = NoneInt
        => /\ frameReader = "reading"
           /\ Len(dispatched) <= Len(sentMsgs)
           /\ dispatched = SubSeq(sentMsgs, 1, Len(dispatched))
           /\ (wire = <<>> => dispatched = sentMsgs)

\* ---------------------------------------------------------------------------
\* Further properties of the connection registry (SpecNet)
\* ---------------------------------------------------------------------------

\* C11: no step of the eviction that follows a failed send to one address
\* touches another address: its table entry, its socket and its status stay
\* as they were.
C11_EvictionLeavesOthersAlone ==
    [][ (sender.op = "send" /\ sender.pc \in RmPcs /\ sender' # sender)
          => \A a \in Addrs \ {sender.ip} :
                /\ clients'[a] = clients[a]
                /\ client_status'[a] = client_status[a]
                /\ \A s \in Socks : sock[s].addr = a => sock'[s] = sock[s] ]_vars

\* C11 witness: a send to one address failed on its socket and the address
\* was evicted, while the other address is still registered, open and online
C11_Witness ==
    \E a \in Addrs :
        /\ sender.pc = "ret" /\ sender.op = "send" /\ sender.result = "false"
        /\ sender.s # NoSock
        /\ closeCount[sender.s] = 1
        /\ reader[sender.s] = "recv"
        /\ clients[sender.ip] = NoSock /\ client_status[sender.ip] = "offline"
        /\ a # sender.ip
        /\ clients[a] # NoSock
        /\ sock[clients[a]].state = "open"
        /\ client_status[a] = "online"

\* ---------------------------------------------------------------------------
\* Properties of dispatch and of malformed data on one connection (SpecFrame)
\* ---------------------------------------------------------------------------

\* the step dispatched one more message and kept the unread bytes
DispatchedOne ==
    /\ Len(dispatched') = Len(dispatched) + 1
    /\ \E n \in 1..Len(wire) : wire' = SubSeq(wire, n + 1, Len(wire))

\* C12: a step in which a handler raises leaves the reader in its loop (the
\* connection is not removed) with the unread bytes intact, so the next
\* message on the connection is still dispatched.
C12_HandlerFailureKeepsReader ==
    [][ (Len(invoked') = Len(invoked) + 1 /\ invoked'[Len(invoked')].raised)
          => (frameReader' = "reading" /\ DispatchedOne) ]_vars

\* C12 witness: a handler raised and a later message was dispatched on the
\* same connection
C12_Witness ==
    \E k \in 1..Len(invoked) :
        /\ invoked[k].raised
        /\ Len(dispatched) > invoked[k].at
        /\ frameReader = "reading"

\* C13: dispatching a message whose type has no handler, or that has no type
\* field, calls no handler and leaves the reader in its loop with the unread
\* bytes intact.
C13_UnknownTypeDropped ==
    [][ ( /\ Len(dispatched') = Len(dispatched) + 1
          /\ MsgType(dispatched'[Len(dispatched')]) \notin {"status_update", "session_end"} )
          => (invoked' = invoked /\ frameReader' = "reading" /\ DispatchedOne) ]_vars

\* C13 witness: a message without a type field and one of an unknown type
\* were dispatched, no handler ran, the reader is still in its loop
C13_Witness ==
    /\ \E i, j \in 1..Len(dispatched) : dispatched[i] = "n" /\ dispatched[j] = "q"
    /\ invoked = <<>>
    /\ frameReader = "reading"

\* C14: once the peer has sent malformed or oversized data, nothing sent after
\* it is dispatched, and when the reader has taken all of it from the stream
\* the reader has left its loop and the connection is closed.
C14_MalformedDropsConnection ==
    poisoned # NoneInt
        => /\ Len(dispatched) <= poisoned
           /\ (wire = <<>> => frameReader = "closed")

\* ---------------------------------------------------------------------------
\* Properties of the wire codec (SpecCodec)
\* ---------------------------------------------------------------------------

\* no string of the message, key or value, holds a newline
NoDelimiter(d) ==
    \A i \in 1..Len(d) :
        /\ \A j \in 1..Len(d[i].k) : d[i].k[j] # NL
        /\ d[i].val.t = "str" => \A j \in 1..Len(d[i].val.v) : d[i].val.v[j] # NL

\* C15: for every message without a newline in its strings, the frame
\* written for it is one line, and json.loads of that frame succeeds and
\* yields a message equal to the original.
C15_FramingRoundTrip ==
    /\ (codecPc \in {"encoded", "decoded"} /\ NoDelimiter(envelope))
          => /\ frame[Len(frame)] = NL
             /\ \A i \in 1..(Len(frame) - 1) : frame[i] # NL
    /\ (codecPc = "decoded" /\ NoDelimiter(envelope))
          => (decoded.ok /\ decoded.val = envelope)

\* C15 witness: a message whose string value needs escaping (a quote and a
\* backslash) came back equal
C15_Witness ==
    /\ codecPc = "decoded"
    /\ NoDelimiter(envelope)
    /\ Len(envelope) = 2
    /\ envelope[2].val = [t |-> "str", v |-> <<"\"", "\\">>]
    /\ decoded.val = envelope

\* The order of the version texts under semantic versioning, written out.
SemverRank(txt) ==
    CASE txt = <<"0", ".", "9", ".", "0">> -> 1
      [] txt = <<"1", ".", "0", ".", "0">> -> 2
      [] txt = <<"1", ".", "9", ".", "0">> -> 3
      [] txt = <<"1", ".", "1", "0", ".", "0">> -> 4
      [] OTHER -> 0

\* C16: an announcement is admitted exactly when (no minimum version is
\* configured, or its version is a version and is at least the minimum in
\* semantic-version order) and its features include every required feature;
\* a rejected announcement leaves the registry and the listener as they were.
C16_AcceptanceFilter ==
    [][nRecv' # nRecv =>
         LET info == lastAnn'.info
             admitted ==
                 /\ \/ version_constraint = <<>>
                    \/ /\ SemverRank(info.version) > 0
                       /\ SemverRank(info.version) >= SemverRank(version_constraint)
                 /\ required_features \subseteq info.features
         IN  /\ lastAnn'.accepted = admitted
             /\ ~admitted => servers' = servers /\ listener' = listener]_vars

\* An announcement without a usable version was rejected after an earlier
\* one of version 1.10.0 had been admitted under the minimum 1.9.0.
C16_Witness ==
    /\ version_constraint = <<"1", ".", "9", ".", "0">>
    /\ required_features = {"f"}
    /\ lastAnn.n >= 2
    /\ ~lastAnn.accepted
    /\ lastAnn.info.version = <<"x">>
    /\ \E i \in 1..Len(servers) : servers[i].id = lastAnn.info.id

C18_ProbeKeepsMembership ==
    [][/\ (ProbeBegin \/ ProbeNext
                \/ \E r \in Latencies \cup {NoneInt} : ProbeResult(r)) =>
            /\ Len(servers') = Len(servers)
            /\ \A i \in 1..Len(servers) :
                   \E lat \in Latencies \cup {NoneInt} :
                       servers'[i] = [servers[i] EXCEPT !.latency = lat]
       /\ ProbeResult(NoneInt) =>
            \A i \in 1..Len(servers) :
                servers'[i] # servers[i] => servers'[i].latency = NoneInt
       /\ Ids(servers') # Ids(servers) => UpdateStore \/ SweepRemove]_vars

\* A pass of the probe has just failed to reach the first of two servers:
\* the entry is still registered, with latency None, and the other entry
\* keeps the latency measured before.
C18_Witness ==
    /\ probe.pc = "iter" /\ probe.i = 2 /\ probe.res = "failed"
    /\ Len(servers) = 2
    /\ servers[1].latency = NoneInt
    /\ servers[2].latency = 45

\* C19: when start_session{session_id, duration} arrives at a terminal that
\* has no session and no step fails, the terminal sends exactly one message,
\* the encrypted session_started acknowledgment with that session id and the
\* key derived just now, a key no earlier message used, and afterwards holds
\* the session with end_time = start time + duration hours.
C19_StartAcknowledged ==
    [][\A d \in Durations :
          (current_session = NoSession /\ handle_start_session(d, "none")) =>
             LET ack == termSent'[Len(termSent')] IN
             /\ Len(termSent') = Len(termSent) + 1
             /\ ack.token = session_manager'.session_key
             /\ ack.plain = [type |-> "session_started",
                             session_id |-> nStarts + 1,
                             session_key |-> session_manager'.session_key]
             /\ ack.plain.session_key # session_manager.session_key
             /\ \A i \in 1..Len(termSent) :
                    "token" \in DOMAIN termSent[i] => termSent[i].token # ack.token
             /\ current_session' = [id |-> nStarts + 1, start_time |-> tclock,
                                    end_time |-> tclock + d]]_vars

\* The second session of a run was started at hour 1 for two hours and
\* acknowledged under the second key.
C19_Witness ==
    /\ current_session = [id |-> 2, start_time |-> 1, end_time |-> 3]
    /\ termSent # <<>>
    /\ termSent[Len(termSent)] =
           encrypt_message(2, [type |-> "session_started", session_id |-> 2,
                               session_key |-> 2])

\* C20: when key derivation or the encryption/sending of the acknowledgment
\* fails at a terminal that holds nothing of a session, the terminal sends
\* nothing and holds no session afterwards: no session shadow, and a session
\* manager that reports no session.
C20_FailedStartLeavesNothing ==
    [][\A d \in Durations, f \in {"keygen", "ack"} :
          (current_session = NoSession /\ session_manager = NoManager
              /\ handle_start_session(d, f)) =>
             /\ termSent' = termSent
             /\ current_session' = NoSession
             /\ ~get_session_info']_vars

\* C21: when the payment dialog opened for end_session{force_end: true} on a
\* terminal with an active session returns, accepted or cancelled, the
\* session is over: no session shadow, an empty session manager, no lockdown.
C21_ForcedEndAlwaysEnds ==
    [][\A accepted \in BOOLEAN, input \in DialogInputs :
          (term # <<>> /\ term[Len(term)].force_end
              /\ end_session_finish(accepted, input)) =>
             /\ current_session' = NoSession
             /\ session_manager' = NoManager
             /\ ~lockdown']_vars

\* A forced end of session 1 whose payment dialog was cancelled has run to
\* its end, and the terminal holds no session.
C21_Witness ==
    /\ ended = [force_end |-> TRUE, accepted |-> FALSE]
    /\ nStarts = 1
    /\ current_session = NoSession
    /\ session_manager = NoManager
    /\ ~lockdown
    /\ term = <<>>

\* C22: when session_end{session_id, duration, amount, payment_method}
\* arrives for a session whose row is active, the handler leaves that row
\* completed with exactly the received duration and amount, every other row
\* as it was, and one more payment row with exactly the received session id,
\* amount and payment method.
C22_SessionEndPersisted ==
    [][\A m \in SessionEndMsgs :
          (m.session_id \in SessionIds /\ sessions[m.session_id].status = "active"
              /\ handle_session_end(m)) =>
             /\ sessions' = [sessions EXCEPT ![m.session_id] =
                                [status |-> "completed", duration |-> m.duration,
                                 amount |-> m.amount]]
             /\ payments' = Append(payments, [session_id |-> m.session_id,
                                              amount |-> m.amount,
                                              payment_method |-> m.payment_method])]_vars

\* Session 1 was completed by a session_end of 60 minutes paid 5.00 by card.
C22_Witness ==
    /\ sessions[1] = [status |-> "completed", duration |-> 60, amount |-> 500]
    /\ payments = <<[session_id |-> 1, amount |-> 500, payment_method |-> "Card"]>>

\* C23: a session_end naming a session id that has no row on the server
\* changes no session row and adds no payment row.
C23_UnknownSessionEndIgnored ==
    [][\A m \in SessionEndMsgs :
          ((m.session_id \notin SessionIds \/ sessions[m.session_id].status = "absent")
              /\ handle_session_end(m)) =>
             /\ sessions' = sessions
             /\ payments' = payments]_vars

\* C24: when send_message returns False for the start_session or the
\* end_session command, the operator is shown a warning, and the session
\* rows keep what the operation had written before the send.
C24_SendFailureReported ==
    [][/\ \A d \in Durations :
            OpStartSession(d, FALSE) =>
               /\ srv'.notice = "warning"
               /\ \E id \in SessionIds :
                      sessions[id].status = "absent" /\ sessions'[id].status = "active"
       /\ \A id \in SessionIds :
            OpEndSend(id, FALSE) =>
               /\ srv'.notice = "warning"
               /\ sessions' = sessions]_vars

\* C25: while the terminal holds a session, from one state to the next in
\* which it still holds one, the session key of the session manager stays
\* the same; a start_session arriving during a session does not re-key.
C25_KeyStableDuringSession ==
    [][(current_session # NoSession /\ current_session' # NoSession) =>
          session_manager'.session_key = session_manager.session_key]_vars

\* the sessions the terminal tracks: the one of the session shadow (active)
\* and those whose end is in progress in an open payment dialog (ending)
TrackedSessions ==
    {current_session.id : x \in {y \in {0} : current_session # NoSession}}
        \cup {term[i].id : i \in 1..Len(term)}

\* C26: in every reachable state the terminal tracks at most one session,
\* active or ending.
C26_AtMostOneSession == Cardinality(TrackedSessions) <= 1

\* C27: a firing of the inactivity timer changes nothing of the session
\* manager but last_activity, leaves the session shadow and the lockdown as
\* they were and sends nothing; when it warns, last_activity becomes now.
C27_InactivityOnlyWarns ==
    [][check_inactivity =>
          /\ session_manager' = [session_manager EXCEPT
                                   !.last_activity = session_manager'.last_activity]
          /\ current_session' = current_session
          /\ lockdown' = lockdown
          /\ termSent' = termSent
          /\ term' = term
          /\ nWarn' # nWarn => session_manager'.last_activity = tclock]_vars

\* An hour into session 1 the inactivity warning was shown, and the session
\* is still there with its key.
C27_Witness ==
    /\ nWarn = 1
    /\ nStarts = 1
    /\ tclock = 1
    /\ current_session = [id |-> 1, start_time |-> 0, end_time |-> 2]
    /\ session_manager = [session_key |-> 1, session_id |-> 1, session_start |-> 0,
                          session_duration |-> 2, last_activity |-> 1,
                          inactivity_timer |-> TRUE]
    /\ lockdown

\* C28: once stop() has been called on the running discovery client, on the
\* running broadcaster, or close() on the connection registry, every loop of
\* that component eventually exits, also when no datagram and no connection
\* arrives any more.
C28_StopExitsLoops ==
    /\ (dc.listener # "none" /\ ~dc.running)
          ~> (dc.listener = "exited" /\ dc.sweeper = "exited" /\ dc.prober = "exited")
    /\ (bcast.pc \notin {"new", "idle"} /\ ~bcast.running) ~> (bcast.pc = "exited")
    /\ nm.closed ~> (nm.acceptor = "exited")

\* C29: a broadcaster that was started and not stopped is inside its loop,
\* also when no interface was usable at its start: it has reported the
\* condition and goes on trying.
C29_KeepsRetrying ==
    (bcast.running /\ bcast.pc \notin {"new", "idle"}) => bcast.pc # "exited"

\* C30: at the end of every broadcast tick the announcement has been sent on
\* every interface that was bound and whose send did not fail in this tick,
\* the bound interfaces being all discovered ones whose bind did not fail;
\* and the loop is left only after stop() or when no interface could be bound.
C30_FailedInterfaceSkipped ==
    /\ bcast.pc = "sleep" =>
          /\ Range(bcast.sockets) = Range(bcast.ifs) \ bcast.bindFailed
          /\ bcast.sent = Range(bcast.sockets) \ bcast.failed
    /\ bcast.pc = "exited" => (~bcast.running \/ Range(bcast.ifs) \subseteq bcast.bindFailed)

\* In the second tick the send on eth0 failed and the announcement went out
\* on wlan0.
C30_Witness ==
    /\ bcast.pc = "sleep"
    /\ bcast.tick = 2
    /\ bcast.sockets = <<"eth0", "wlan0">>
    /\ bcast.failed = {"eth0"}
    /\ bcast.sent = {"wlan0"}

\* ---------------------------------------------------------------------------
\* C31: an update of the announcement content takes effect from the next
\* tick: every datagram sent in a tick is the serialization of
\* self.server_info as it was when the tick began (so it carries every update
\* that returned before the tick, and decodes to those fields), and all the
\* datagrams of one tick have the same content.
C31_UpdateTakesEffectNextTick ==
    /\ \A d \in bcast.out :
          /\ d.data = json_dumps(bcast.tickInfo)
          /\ json_loads(d.data) = [ok |-> TRUE, val |-> bcast.tickInfo, rest |-> <<>>]
    /\ \A d, e \in bcast.out : d.data = e.data

\* the second tick went out on both interfaces with the content of an update
\* made before it, while a further update arrived during the tick
C31_Witness ==
    /\ bcast.pc = "sleep"
    /\ bcast.tick = 2
    /\ {d.interface : d \in bcast.out} = {"eth0", "wlan0"}
    /\ bcast.tickInfo # InitialServerInfo
    /\ bcast.server_info # bcast.tickInfo

\* ---------------------------------------------------------------------------
\* C32: no datagram ends the listen loop: the loop is never left, and after
\* whatever datagrams came before (not JSON, a field missing, a failed
\* ServerFound callback) a valid announcement is taken to the upsert of its
\* server id, which then stores it with the time of its reception.
C32_BadDatagramKeepsLoop ==
    /\ [](listener.pc # "exited")
    /\ [][nRecv' # nRecv /\ listenLog'[nRecv'].valid
            => /\ listener'.pc = "store"
               /\ listener'.id = listenLog'[nRecv'].addr
               /\ listener'.now = now]_vars
    /\ [][listener.pc = "store" /\ listener'.pc # "store"
            => /\ listener.id \in Ids(servers')
               /\ DictGet(servers', listener.id).last_seen = listener.now]_vars

\* s2 is in the registry through the third datagram, after a datagram that
\* was not an announcement and one whose ServerFound callback failed
C32_Witness ==
    /\ Len(listenLog) = 3
    /\ listenLog[1].outcome \in {"json", "key"}
    /\ listenLog[2].outcome = "callback"
    /\ listenLog[3].outcome = "accepted"
    /\ listenLog[3].addr = "s2"
    /\ "s2" \in Ids(servers)
    /\ listener.pc = "recv"

\* ---------------------------------------------------------------------------
\* C33: the connection table and the status table agree in every state: an
\* address in the connection table has status "online", an address with status
\* "offline" is not in the connection table, and no connection handle is
\* closed twice.
C33_TablesConsistent ==
    /\ \A a \in Addrs : clients[a] # NoSock => client_status[a] = "online"
    /\ \A a \in Addrs : client_status[a] = "offline" => clients[a] = NoSock
    /\ \A s \in Socks : closeCount[s] <= 1

\* ---------------------------------------------------------------------------
\* C34: after a connection_lost event the terminal keeps trying: a reconnect
\* attempt that failed is followed by a further attempt (or by an established
\* connection), as long as the terminal runs.
C34_KeepsReconnecting ==
    \A n \in 1..(MaxLost + 1) :
        (/\ app.lost >= 1 /\ app.lost < MaxLost
         /\ app.attempts = n /\ app.lastFailed /\ ~app.connected /\ ~app.closed)
            ~> (app.attempts > n \/ app.connected \/ app.closed)

\* ---------------------------------------------------------------------------
\* C35: once computer_removed has been handled the terminal's window is
\* closed, with or without an active session.
C35_RemovedTerminates ==
    app.removed => app.closed

\* ---------------------------------------------------------------------------
\* the session ids the terminal has acknowledged with session_started
AckedSessions ==
    {termSent[i].plain.session_id :
        i \in {j \in 1..Len(termSent) : "token" \in DOMAIN termSent[j]}}

\* the positions of the session_end messages for id among the messages sent
SessionEndsFor(id) ==
    {i \in 1..Len(termSent) :
        /\ "type" \in DOMAIN termSent[i]
        /\ termSent[i].type = "session_end"
        /\ termSent[i].session_id = id}

\* C36: every session the terminal has acknowledged is, in every later
\* state, its current session or one it has sent session_end for.
C36_NoSessionDropped ==
    \A id \in AckedSessions :
        current_session.id = id \/ SessionEndsFor(id) # {}

\* C37: the terminal sends at most one session_end per session id, also when
\* the ends overlap (the countdown after expiry, a logout request and the
\* operator's end_session while a payment dialog is open).
C37_OneSessionEndPerSession ==
    \A id \in SessionIds : Cardinality(SessionEndsFor(id)) <= 1

\* Session 1 ran out and the countdown (or a logout request) opened the payment
\* dialog; while it
\* was open the operator's end_session opened a second one, which was
\* accepted and reported the session; the first dialog is still open.
C37_Witness ==
    /\ Len(term) = 1
    /\ term[1].id = 1
    /\ ~term[1].force_end
    /\ tclock >= 1
    /\ ended = [force_end |-> TRUE, accepted |-> TRUE]
    /\ current_session = NoSession
    /\ nStarts = 1
    /\ Cardinality(SessionEndsFor(1)) = 1

\* ---------------------------------------------------------------------------
\* C38: the server holds at most one payment record per session id, and the
\* duration and amount of a session record that is completed are not written
\* again by a later session_end or forced end.
C38_PaymentOncePerSession ==
    /\ [](\A id \in MsgIds :
            Cardinality({i \in 1..Len(payments) : payments[i].session_id = id}) <= 1)
    /\ [][\A id \in SessionIds :
            sessions[id].status = "completed" => sessions'[id] = sessions[id]]_vars

\* ---------------------------------------------------------------------------
\* C39: for each server id the notifications alternate, beginning with
\* ServerFound: ServerLost is fired only when the last notification for the
\* id was ServerFound, and ServerFound only when there was none yet or the
\* last one was ServerLost.
C39_NotificationsAlternate ==
    [][\A id \in ServerIds :
          /\ nLost'[id] = nLost[id] + 1 => lastNote[id] = "found"
          /\ nFound'[id] = nFound[id] + 1 => lastNote[id] \in {"none", "lost"}]_vars

\* ---------------------------------------------------------------------------
\* C40: a repeated announcement for a known server id refreshes last_seen and
\* the announced fields and leaves the measured latency of the entry as it
\* was, so that a running server with a measured latency stays eligible for
\* get_best_server.
C40_RefreshKeepsLatency ==
    [][(listener.pc = "store" /\ listener'.pc # "store" /\ listener.id \in Ids(servers))
          => LET old == DictGet(servers, listener.id)
                 new == DictGet(servers', listener.id)
             IN  /\ new.last_seen = listener.now
                 /\ new.status = listener.status
                 /\ new.latency = old.latency
                 /\ (old.latency # NoneInt /\ new.status = "running")
                       => IndexOf(servers', listener.id) \in Eligible(servers')]_vars
====
